---- MODULE Spec2Model ----
(***************************************************************************)
(* Observable (src/09-observable/index.js): one subscribe call, executed   *)
(* as the JavaScript engine executes it - a single thread with a call      *)
(* stack.  Library code (subscribe, subscriber.next/error/complete,        *)
(* subscription.unsubscribe) is translated statement by statement; user    *)
(* code (the subscribe-procedure, the Observer's callbacks, the cleanup    *)
(* action, deferred tasks) is the environment: at every point it may       *)
(* return, throw, or call any reference it can hold.                       *)
(***************************************************************************)
EXTENDS Integers, Sequences, FiniteSets, TLC

\* ------------------------------------------------------------- bounds
\* calls the environment makes on the subscriber / subscription in one run
MaxCalls == 3
\* values a producer emits are 1..MaxVal
MaxVal == 2
\* longest array handed to Observable.from
MaxLen == 2

Values == 1..MaxVal

RECURSIVE SeqsUpTo(_)
SeqsUpTo(n) ==
    IF n = 0 THEN {<<>>}
    ELSE LET shorter == SeqsUpTo(n - 1)
         IN  shorter \cup {Append(s, v) : s \in {t \in shorter : Len(t) = n - 1}, v \in Values}

Arrays == SeqsUpTo(MaxLen)

\* ------------------------------------------------------------- values
NoExc == "none"
\* `this.error(error)` at line 49: `this` is the Observable, which has no
\* method `error`, so the call itself throws a TypeError
TypeError == "TypeError"
\* the error a producer passes to subscriber.error(e)
SignalError == "e_signal"

LibraryFns == {"subscribe", "next", "error", "complete", "unsubscribe"}
UserFns == {"procedure", "obsNext", "obsError", "obsComplete", "cleanup"}
TerminalFns == {"error", "complete", "unsubscribe"}

\* the error thrown by user code running in a frame of kind fn
Thrown(fn) == "e_" \o fn

VARIABLES
    subscribeFn,        \* this._subscribeFn: [kind, array]
    normalizedObserver, \* which callbacks the Observer has
    isStopped,          \* the terminal flag of the subscribe call
    unsubscribeFn,      \* TRUE iff a cleanup action is registered
    stack,              \* the call stack, innermost frame last
    exc,                \* the exception being thrown, or NoExc
    ret,                \* what the subscribe-procedure returned
    subscription,       \* "none", "pending" (inside subscribe), "returned"
    budget,             \* environment calls left
    log,                \* the Observer's callbacks, in invocation order
    cleanupRuns,        \* how many times the cleanup action was invoked
    unsubCalls,         \* how many times unsubscribe() was called
    faults,             \* exceptions library code caught from user code
    escaped             \* exceptions that left a library function

\* An operator chain, source.map(fn) / filter(predicate) / take(count) /
\* skip(count): two subscribe calls, "down" (the consumer's, on the
\* operator's Observable) and "up" (the operator's, on the source).
VARIABLES
    operator,           \* the operator: [op, count, throwsOn]
    source,             \* the upstream Observable: [kind, array]
    consumer,           \* which callbacks the consumer's Observer has
    subs,               \* per subscribe call: isStopped, unsubscribeFn, state
    frames,             \* the call stack, innermost frame last
    thrown,             \* the exception being thrown, or NoExc
    returned,           \* what the last subscribe-procedure returned
    taken,              \* take's counter (line 204)
    skipped,            \* skip's counter (line 239)
    emitted,            \* iterations of an endless producer's loop
    calls,              \* environment calls left
    delivered,          \* the consumer's callbacks, in invocation order
    relayed,            \* the values the operator's next callback received
    sourceRuns,         \* how many times the source's procedure was invoked
    sourceCleanups,     \* how many times the source's cleanup was invoked
    unsubscribes,       \* per call, how many times its unsubscribe() was called
    chainFaults,        \* exceptions caught from user code, and by whom
    earlier             \* what the Observers of earlier subscribe calls were given

chain == <<operator, source, consumer, subs, frames, thrown, returned, taken, skipped,
           emitted, calls, delivered, relayed, sourceRuns, sourceCleanups,
           unsubscribes, chainFaults, earlier>>

single == <<subscribeFn, normalizedObserver, isStopped, unsubscribeFn, stack, exc,
            ret, subscription, budget, log, cleanupRuns, unsubCalls, faults, escaped>>

\* LRUCache (src/unnamed/part_001)
VARIABLES
    capacity,           \* this.capacity
    cache,              \* this.cache: the Map's entries in insertion order
    recent,             \* the keys by last use (get hit or put), oldest first
    lastCall            \* the last method call and what it did

lru == <<capacity, cache, recent, lastCall>>

\* Two subscribe calls on one Observable: call 1 and call 2, each with an
\* Observer of its own that has all three callbacks.
VARIABLES
    closures,           \* per call: isStopped, unsubscribeFn, state
    pairStack,          \* the call stack, innermost frame last
    pairExc,            \* the exception being thrown, or NoExc
    pairRet,            \* what the last subscribe-procedure returned
    pairBudget,         \* environment calls left
    pairLog,            \* per call, its Observer's callbacks in invocation order
    pairCleanups,       \* per call, how many times its cleanup action was invoked
    pairFaults          \* exceptions thrown by Observer callbacks, and whose

pair == <<closures, pairStack, pairExc, pairRet, pairBudget, pairLog, pairCleanups,
          pairFaults>>

\* A CommandManager and the calculator its commands work on.
VARIABLES
    calculator,         \* calculator.value
    undoStack,          \* this.undoStack: command objects, top last
    redoStack,          \* this.redoStack: command objects, top last
    commands,           \* the command objects constructed: kind, value, previousValue
    journal             \* the manager calls made, each with the state it left

manager == <<calculator, undoStack, redoStack, commands, journal>>

\* An EventEmitter with one event, listeners registered with on and one
\* listener registered with once.
VARIABLES
    events,             \* this.events.get(event): the listeners, in order
    emitStack,          \* the call stack, innermost frame last
    invoked,            \* how many times the once-listener was invoked
    registered,         \* once(event, listener) has been called
    emits,              \* emit calls made
    reentered,          \* an emit was made from inside a listener
    caught              \* emit caught what a listener threw (line 95)

emitter == <<events, emitStack, invoked, registered, emits, reentered, caught>>

\* One call of retry(fn, options).
VARIABLES
    options,            \* maxRetries, initialDelay, maxDelay, backoff, jitter
    attempt,            \* the loop variable of line 504
    lastError,          \* the variable of line 501
    at,                 \* where the call is
    settled,            \* how the promise of retry settled
    trace,              \* the calls of fn, retryIf and onRetry, in order
    waited              \* the delays slept, in order

retrying == <<options, attempt, lastError, at, settled, trace, waited>>

\* One StateMachine (src/16-state-machine/index.js) and the calls made on it.
VARIABLES
    machineConfig,      \* the config object handed to the constructor
    currentState,       \* this.currentState
    context,            \* this.context
    built,              \* "no", "yes", or "thrown" when the constructor threw
    answer,             \* the last call: method, event, outcome, where it was made
    actionRuns,         \* the transition actions invoked, in order
    machineCalls        \* how many calls have been made

machine == <<machineConfig, currentState, context, built, answer, actionRuns,
             machineCalls>>

\* One run of a middleware pipeline (src/14-middleware-pipeline/index.js).
VARIABLES
    composed,           \* TRUE: compose(middleware)(context); FALSE: Pipeline.run
    middleware,         \* the number of middleware functions registered
    started,            \* the run has been started
    currentIndex,       \* the variable of line 113
    pipeStack,          \* the dispatch and middleware calls in progress
    entered,            \* the indexes of the middleware invoked, in order
    rejections,         \* the errors thrown and the promises rejected, in order
    nextCalls           \* how many calls of next() are left to the middleware

pipeline == <<composed, middleware, started, currentIndex, pipeStack, entered,
              rejections, nextCalls>>

\* the state of the other programs of the repository
others == <<lru, pair, manager, emitter, retrying, machine, pipeline>>

vars == <<single, chain, others>>

\* what no step of the single subscribe call changes: the Observable, the
\* Observer, and an operator chain that is not part of the run
config == <<subscribeFn, normalizedObserver, chain, others>>

NewSub == [isStopped |-> FALSE, unsubscribeFn |-> FALSE, state |-> "none"]

\* no operator chain in the run
NoChain ==
    /\ operator = [op |-> "none", count |-> 0, throwsOn |-> 0]
    /\ source = [kind |-> "none", array |-> <<>>]
    /\ consumer = [next |-> FALSE, error |-> FALSE, complete |-> FALSE]
    /\ subs = [s \in {"down", "up"} |-> NewSub]
    /\ frames = <<>>
    /\ thrown = "none"
    /\ returned = "none"
    /\ taken = 0
    /\ skipped = 0
    /\ emitted = 0
    /\ calls = 0
    /\ delivered = <<>>
    /\ relayed = <<>>
    /\ sourceRuns = 0
    /\ sourceCleanups = 0
    /\ unsubscribes = [s \in {"down", "up"} |-> 0]
    /\ chainFaults = {}
    /\ earlier = <<>>

\* no LRUCache in the run
NoCache ==
    /\ capacity = 0
    /\ cache = <<>>
    /\ recent = <<>>
    /\ lastCall = [op |-> "none"]

Ids == {1, 2}

\* no pair of subscribe calls in the run
NoPair ==
    /\ closures = [i \in Ids |-> NewSub]
    /\ pairStack = <<>>
    /\ pairExc = "none"
    /\ pairRet = "none"
    /\ pairBudget = 0
    /\ pairLog = [i \in Ids |-> <<>>]
    /\ pairCleanups = [i \in Ids |-> 0]
    /\ pairFaults = {}

\* no CommandManager in the run
NoManager ==
    /\ calculator = 0
    /\ undoStack = <<>>
    /\ redoStack = <<>>
    /\ commands = <<>>
    /\ journal = <<>>

\* no EventEmitter in the run
NoEmitter ==
    /\ events = <<>>
    /\ emitStack = <<>>
    /\ invoked = 0
    /\ registered = FALSE
    /\ emits = 0
    /\ reentered = FALSE
    /\ caught = FALSE

\* no call of retry in the run
NoRetry ==
    /\ options = [maxRetries |-> 0, initialDelay |-> 0, maxDelay |-> 0,
                  backoff |-> "none", jitter |-> FALSE]
    /\ attempt = 0
    /\ lastError = 0
    /\ at = "none"
    /\ settled = [how |-> "none", with |-> 0]
    /\ trace = <<>>
    /\ waited = <<>>

\* no StateMachine in the run
NoMachine ==
    /\ machineConfig = <<>>
    /\ currentState = ""
    /\ context = 0
    /\ built = "no"
    /\ answer = <<>>
    /\ actionRuns = <<>>
    /\ machineCalls = 0

\* no middleware pipeline in the run
NoPipeline ==
    /\ composed = FALSE
    /\ middleware = 0
    /\ started = FALSE
    /\ currentIndex = 0 - 1
    /\ pipeStack = <<>>
    /\ entered = <<>>
    /\ rejections = <<>>
    /\ nextCalls = 0

\* none of the other programs in the run
NoOthers ==
    /\ NoCache /\ NoPair /\ NoManager /\ NoEmitter /\ NoRetry
    /\ NoMachine /\ NoPipeline

history == <<log, cleanupRuns, unsubCalls, faults, escaped>>

\* ------------------------------------------------------------- frames
Frame(fn, pc, arg) == [fn |-> fn, pc |-> pc, arg |-> arg]

Top == stack[Len(stack)]
Running(fn, pc) == Len(stack) > 0 /\ Top.fn = fn /\ Top.pc = pc

Below == SubSeq(stack, 1, Len(stack) - 1)
Goto(pc) == [stack EXCEPT ![Len(stack)].pc = pc]
GotoArg(pc, arg) == [stack EXCEPT ![Len(stack)] = Frame(Top.fn, pc, arg)]

\* return from the running frame; e is the exception it lets out (or NoExc).
\* An exception that leaves the outermost frame is reported by the engine
\* and the event loop goes on.
Return(e) ==
    /\ stack' = Below
    /\ exc' = IF Len(stack) = 1 THEN NoExc ELSE e
    /\ escaped' = IF e # NoExc /\ Top.fn \in LibraryFns
                  THEN escaped \cup {<<Top.fn, e>>}
                  ELSE escaped

\* new Observable(subscribeFn), lines 11-15, with a procedure written by the user
Custom == [kind |-> "custom", array |-> <<>>]

\* Observable.from(array), lines 262-278
From(array) == [kind |-> "from", array |-> array]

\* Observable.of(...values), lines 285-291
Of(values) == From(values)

Init ==
    /\ subscribeFn \in {Custom} \cup {From(a) : a \in Arrays} \cup {Of(a) : a \in Arrays}
    /\ normalizedObserver \in [next : BOOLEAN, error : BOOLEAN, complete : BOOLEAN]
    /\ isStopped = FALSE
    /\ unsubscribeFn = FALSE
    /\ stack = <<>>
    /\ exc = NoExc
    /\ ret = "none"
    /\ subscription = "none"
    /\ budget = MaxCalls
    /\ log = <<>>
    /\ cleanupRuns = 0
    /\ unsubCalls = 0
    /\ faults = {}
    /\ escaped = {}
    /\ NoChain
    /\ NoOthers

\* ------------------------------------------------------------- subscribe
\* subscribe(observer), lines 22-90: normalise the observer, create the
\* closure state and call this._subscribeFn(subscriber)
Subscribe ==
    /\ subscription = "none"
    /\ stack = <<>>
    /\ subscription' = "pending"
    /\ isStopped' = FALSE
    /\ unsubscribeFn' = FALSE
    /\ stack' = <<Frame("subscribe", "call", 0),
                  IF subscribeFn.kind = "from" THEN Frame("from", "loop", 1)
                                               ELSE Frame("procedure", "run", 0)>>
    /\ UNCHANGED <<config, exc, ret, budget, history>>

\* lines 92-97: what the procedure returned becomes the cleanup action
Normalized(cleanup) == cleanup \in {"function", "object"}

\* lines 90-97 and 107: the procedure returned; subscribe returns the
\* Subscription
SubscribeReturn ==
    /\ Running("subscribe", "call")
    /\ exc = NoExc
    /\ unsubscribeFn' = Normalized(ret)
    /\ subscription' = "returned"
    /\ Return(NoExc)
    /\ UNCHANGED <<config, isStopped, ret, budget, log, cleanupRuns, unsubCalls, faults>>

\* the catch block signalling completion instead of the error
CatchCallsComplete(error) == Frame("complete", "entry", 0)

\* line 100: the call made by the catch block
CatchCall(error) == Frame("error", "entry", error)

\* lines 99-100: the procedure threw; catch and call subscriber.error(error)
SubscribeCatch ==
    /\ Running("subscribe", "call")
    /\ exc # NoExc
    /\ faults' = faults \cup {[site |-> "subscribe", err |-> exc, stopped |-> isStopped]}
    /\ exc' = NoExc
    /\ stack' = Append(Goto("catch"), CatchCall(exc))
    /\ UNCHANGED <<config, isStopped, unsubscribeFn, ret, subscription, budget,
                   log, cleanupRuns, unsubCalls, escaped>>

\* lines 100-107: subscriber.error came back; subscribe returns the
\* Subscription (or lets out what subscriber.error let out)
SubscribeReturnAfterCatch ==
    /\ Running("subscribe", "catch")
    /\ subscription' = IF exc = NoExc THEN "returned" ELSE "failed"
    /\ Return(exc)
    /\ UNCHANGED <<config, isStopped, unsubscribeFn, ret, budget, log, cleanupRuns,
                   unsubCalls, faults>>

\* ------------------------------------------------------------- subscriber.next
\* next not looking at the terminal flag
NextGuardNoFlag == normalizedObserver.next

\* line 44
NextGuard == ~isStopped /\ normalizedObserver.next

\* lines 44-46: deliver the value to the Observer
SubscriberNext ==
    /\ Running("next", "entry")
    /\ NextGuard
    /\ log' = Append(log, <<"next", Top.arg>>)
    /\ stack' = Append(Goto("try"), Frame("obsNext", "run", 0))
    /\ UNCHANGED <<config, isStopped, unsubscribeFn, exc, ret, subscription, budget,
                   cleanupRuns, unsubCalls, faults, escaped>>

\* line 44, condition false: nothing happens
SubscriberNextIgnored ==
    /\ Running("next", "entry")
    /\ ~NextGuard
    /\ Return(NoExc)
    /\ UNCHANGED <<config, isStopped, unsubscribeFn, ret, subscription, budget, log,
                   cleanupRuns, unsubCalls, faults>>

\* lines 46-47: the Observer's next returned
SubscriberNextDone ==
    /\ Running("next", "try")
    /\ exc = NoExc
    /\ Return(NoExc)
    /\ UNCHANGED <<config, isStopped, unsubscribeFn, ret, subscription, budget, log,
                   cleanupRuns, unsubCalls, faults>>

\* line 49, `this.error(error)`: inside the arrow function `this` is the
\* Observable on which subscribe was called (lines 6-292: no member named
\* error), so the call throws a TypeError out of subscriber.next
NextCatchThrows == TypeError

\* the catch of subscriber.next stopping the subscription and returning
SubscriberNextCatchStops ==
    /\ Running("next", "try")
    /\ exc # NoExc
    /\ faults' = faults \cup {[site |-> "next", err |-> exc, stopped |-> isStopped]}
    /\ isStopped' = TRUE
    /\ Return(NoExc)
    /\ UNCHANGED <<config, unsubscribeFn, ret, subscription, budget, log,
                   cleanupRuns, unsubCalls>>

\* lines 48-50: the Observer's next threw
SubscriberNextCatch ==
    /\ Running("next", "try")
    /\ exc # NoExc
    /\ faults' = faults \cup {[site |-> "next", err |-> exc, stopped |-> isStopped]}
    /\ Return(NextCatchThrows)
    /\ UNCHANGED <<config, isStopped, unsubscribeFn, ret, subscription, budget, log,
                   cleanupRuns, unsubCalls>>

\* ------------------------------------------------------------- error, complete, unsubscribe
\* error, complete and unsubscribe not looking at the terminal flag
TerminalGuardAlways == TRUE

\* unsubscribe running the cleanup without looking at the terminal flag
UnsubscribeUnguarded == ~isStopped \/ Top.fn = "unsubscribe"

\* going by the cleanup reference as well as by the flag
TerminalGuardByReference == ~isStopped \/ unsubscribeFn

\* lines 54, 70, 109
TerminalGuard == ~isStopped

\* unsubscribe setting a flag of its own instead of the subscriber's
SetStoppedNotShared == Top.fn # "unsubscribe"

\* the flag left unset while the Observer's callback runs
SetStoppedAfterHandler ==
    ~ \/ Top.fn = "error" /\ normalizedObserver.error
      \/ Top.fn = "complete" /\ normalizedObserver.complete

\* lines 55, 71, 110: `isStopped = true`
SetStopped == TRUE

\* lines 56, 72; unsubscribe invokes no callback
HasHandler(fn) ==
    \/ fn = "error" /\ normalizedObserver.error
    \/ fn = "complete" /\ normalizedObserver.complete

Handler(fn) == IF fn = "error" THEN "obsError" ELSE "obsComplete"

Signal(fn, arg) == IF fn = "error" THEN <<"error", arg>> ELSE <<"complete", 0>>

\* calling unsubscribeFn without testing it: calling null is a TypeError
RunCleanupUnchecked ==
    IF unsubscribeFn
    THEN /\ cleanupRuns' = cleanupRuns + 1
         /\ stack' = Append(Goto("cleanup"), Frame("cleanup", "run", 0))
         /\ exc' = NoExc
         /\ escaped' = escaped
    ELSE /\ cleanupRuns' = cleanupRuns
         /\ Return(TypeError)

\* lines 63-64, 80-81, 112-113: `if(unsubscribeFn){ unsubscribeFn();`
\* (the frame goes on at "cleanup" when the action comes back)
RunCleanup ==
    IF unsubscribeFn
    THEN /\ cleanupRuns' = cleanupRuns + 1
         /\ stack' = Append(Goto("cleanup"), Frame("cleanup", "run", 0))
         /\ exc' = NoExc
         /\ escaped' = escaped
    ELSE /\ cleanupRuns' = cleanupRuns
         /\ Return(NoExc)

\* lines 54-58, 70-74, 109-113: the flag was unset; set it, then call the
\* Observer's callback if it has one, else go on to the cleanup
Terminate ==
    /\ Len(stack) > 0
    /\ Top.fn \in TerminalFns
    /\ Top.pc = "entry"
    /\ TerminalGuard
    /\ isStopped' = SetStopped
    /\ unsubCalls' = IF Top.fn = "unsubscribe" THEN unsubCalls + 1 ELSE unsubCalls
    /\ IF HasHandler(Top.fn)
       THEN /\ log' = Append(log, Signal(Top.fn, Top.arg))
            /\ stack' = Append(Goto("handler"), Frame(Handler(Top.fn), "run", 0))
            /\ UNCHANGED <<exc, escaped, cleanupRuns>>
       ELSE /\ log' = log
            /\ RunCleanup
    /\ UNCHANGED <<config, unsubscribeFn, ret, subscription, budget, faults>>

\* lines 54, 70, 109, condition false: nothing happens
TerminateIgnored ==
    /\ Len(stack) > 0
    /\ Top.fn \in TerminalFns
    /\ Top.pc = "entry"
    /\ ~TerminalGuard
    /\ unsubCalls' = IF Top.fn = "unsubscribe" THEN unsubCalls + 1 ELSE unsubCalls
    /\ Return(NoExc)
    /\ UNCHANGED <<config, isStopped, unsubscribeFn, ret, subscription, budget, log,
                   cleanupRuns, faults>>

\* no catch block around the Observer's callback
HandlerRethrows(e) == e

\* lines 60-61, 76-77: the empty catch block; what is still being thrown
\* after it
HandlerCatch(e) == NoExc

\* lines 57-66, 73-83: the Observer's callback came back; what it threw is
\* dropped by the empty catch block, then the cleanup
HandlerDone ==
    /\ Len(stack) > 0
    /\ Top.fn \in {"error", "complete"}
    /\ Top.pc = "handler"
    /\ faults' = IF exc = NoExc THEN faults
                 ELSE faults \cup {[site |-> Top.fn, err |-> exc, stopped |-> isStopped]}
    /\ IF HandlerCatch(exc) = NoExc
       THEN RunCleanup
       ELSE cleanupRuns' = cleanupRuns /\ Return(HandlerCatch(exc))
    /\ UNCHANGED <<config, isStopped, unsubscribeFn, ret, subscription, budget, log,
                   unsubCalls>>

\* lines 64-65, 81-82, 113-114: the cleanup action came back; the reference
\* is cleared unless the action threw
CleanupDone ==
    /\ Len(stack) > 0
    /\ Top.fn \in TerminalFns
    /\ Top.pc = "cleanup"
    /\ unsubscribeFn' = IF exc = NoExc THEN FALSE ELSE unsubscribeFn
    /\ Return(exc)
    /\ UNCHANGED <<config, isStopped, ret, subscription, budget, log, cleanupRuns,
                   unsubCalls, faults>>

\* ------------------------------------------------------------- Observable.from
\* line 271, `subscriber.isStopped`: the subscriber object (lines 42-86) has
\* the members next, error and complete only, so this reads undefined
SubscriberIsStopped == FALSE

\* the array walked from its end
FromElementReversed(array, i) == array[Len(array) + 1 - i]

\* line 270, `for(const value of array)`: the value of the i-th iteration
FromElement(array, i) == array[i]

\* lines 270-274: the next element, or complete after the last one
FromLoop ==
    /\ Running("from", "loop")
    /\ exc = NoExc
    /\ IF Top.arg <= Len(subscribeFn.array) /\ ~SubscriberIsStopped
       THEN stack' = Append(GotoArg("loop", Top.arg + 1),
                            Frame("next", "entry", FromElement(subscribeFn.array, Top.arg)))
       ELSE stack' = Append(GotoArg("done", Top.arg), Frame("complete", "entry", 0))
    /\ UNCHANGED <<config, isStopped, unsubscribeFn, exc, ret, subscription, budget,
                   history>>

\* line 276: return the (empty) cleanup action
FromReturn ==
    /\ Running("from", "done")
    /\ exc = NoExc
    /\ ret' = "function"
    /\ Return(NoExc)
    /\ UNCHANGED <<config, isStopped, unsubscribeFn, subscription, budget, log,
                   cleanupRuns, unsubCalls, faults>>

\* lines 270-274 have no try: an exception leaves the procedure
FromThrow ==
    /\ Len(stack) > 0
    /\ Top.fn = "from"
    /\ exc # NoExc
    /\ Return(exc)
    /\ UNCHANGED <<config, isStopped, unsubscribeFn, ret, subscription, budget, log,
                   cleanupRuns, unsubCalls, faults>>

\* ------------------------------------------------------------- environment
\* what user code can reach: the subscriber is handed to the
\* subscribe-procedure (from() keeps it to itself); the Subscription exists
\* once subscribe has returned it
CanCall(m) ==
    IF m = "unsubscribe" THEN subscription = "returned"
    ELSE subscribeFn.kind = "custom" /\ subscription \in {"pending", "returned"}

Calls == {Frame("next", "entry", v) : v \in Values}
         \cup {Frame("error", "entry", SignalError),
               Frame("complete", "entry", 0),
               Frame("unsubscribe", "entry", 0)}

InUserCode ==
    /\ Len(stack) > 0
    /\ Top.fn \in UserFns
    /\ ~(Top.fn = "cleanup" /\ subscribeFn.kind = "from")

\* user code calls the subscriber or the Subscription
EnvCall ==
    /\ InUserCode
    /\ exc = NoExc
    /\ budget > 0
    /\ \E c \in Calls :
        /\ CanCall(c.fn)
        /\ stack' = Append(stack, c)
    /\ budget' = budget - 1
    /\ UNCHANGED <<config, isStopped, unsubscribeFn, exc, ret, subscription, history>>

\* user code throws
EnvThrow ==
    /\ InUserCode
    /\ exc = NoExc
    /\ Return(Thrown(Top.fn))
    /\ UNCHANGED <<config, isStopped, unsubscribeFn, ret, subscription, budget, log,
                   cleanupRuns, unsubCalls, faults>>

\* user code returns; the subscribe-procedure returns nothing, a function
\* or an object with an unsubscribe method
EnvReturn ==
    /\ Len(stack) > 0
    /\ Top.fn \in UserFns
    /\ exc = NoExc
    /\ IF Top.fn = "procedure"
       THEN ret' \in {"none", "function", "object"}
       ELSE ret' = ret
    /\ Return(NoExc)
    /\ UNCHANGED <<config, isStopped, unsubscribeFn, subscription, budget, log,
                   cleanupRuns, unsubCalls, faults>>

\* a call made by user code threw and user code catches it
EnvCatch ==
    /\ InUserCode
    /\ exc # NoExc
    /\ exc' = NoExc
    /\ UNCHANGED <<config, isStopped, unsubscribeFn, stack, ret, subscription, budget,
                   history>>

\* a call made by user code threw and user code lets it through
EnvPropagate ==
    /\ InUserCode
    /\ exc # NoExc
    /\ Return(exc)
    /\ UNCHANGED <<config, isStopped, unsubscribeFn, ret, subscription, budget, log,
                   cleanupRuns, unsubCalls, faults>>

\* a later task (a deferred producer, the consumer) calls the subscriber
\* or the Subscription from the event loop
Task ==
    /\ stack = <<>>
    /\ subscription = "returned"
    /\ budget > 0
    /\ \E c \in Calls :
        /\ CanCall(c.fn)
        /\ stack' = <<c>>
    /\ budget' = budget - 1
    /\ UNCHANGED <<config, isStopped, unsubscribeFn, exc, ret, subscription, history>>

Next ==
    \/ Subscribe
    \/ SubscribeReturn
    \/ SubscribeCatch
    \/ SubscribeReturnAfterCatch
    \/ SubscriberNext
    \/ SubscriberNextIgnored
    \/ SubscriberNextDone
    \/ SubscriberNextCatch
    \/ Terminate
    \/ TerminateIgnored
    \/ HandlerDone
    \/ CleanupDone
    \/ FromLoop
    \/ FromReturn
    \/ FromThrow
    \/ EnvCall
    \/ EnvThrow
    \/ EnvReturn
    \/ EnvCatch
    \/ EnvPropagate
    \/ Task

Spec == Init /\ [][Next]_vars

\* ------------------------------------------------------------- properties
Idle == stack = <<>>

IsTerminal(c) == c[1] \in {"error", "complete"}
Terminals == {i \in 1..Len(log) : IsTerminal(log[i])}
ErrorCalls == SelectSeq(log, LAMBDA c : c[1] = "error")
Calling(fns) == Len(stack) > 0 /\ Top.fn \in fns /\ Top.pc = "entry"
EscapedFrom(fn) == {p \in escaped : p[1] = fn}

\* C1: over any sequence of next/error/complete/unsubscribe calls the
\* Observer's error and complete callbacks are invoked at most once in
\* total (never both, never one of them twice).
C1_AtMostOneTerminalCallback == Cardinality(Terminals) <= 1

\* a terminal callback was invoked and the producer signals error or
\* complete again
C1_Witness ==
    /\ Cardinality(Terminals) = 1
    /\ Calling({"error", "complete"})
    /\ HasHandler(Top.fn)

\* C2: once the Observer's error or complete callback has been invoked, no
\* Observer callback is invoked any more: a terminal callback is the last
\* entry of the Observer's log, whatever the producer calls afterwards.
C2_NothingAfterTerminal == \A i \in Terminals : i = Len(log)

\* a terminal callback was invoked and the producer calls next on an
\* Observer that has a next callback
C2_Witness ==
    /\ Terminals # {}
    /\ Calling({"next"})
    /\ normalizedObserver.next

\* C3: the Subscriber and the Subscription share one terminal flag: once
\* unsubscribe() has been called no Observer callback is invoked any more,
\* and an unsubscribe() that finds the subscription stopped by the producer
\* changes nothing.
C3_SharedTerminalFlag ==
    [][/\ unsubCalls >= 1 => log' = log
       /\ (Calling({"unsubscribe"}) /\ isStopped)
            => /\ UNCHANGED <<isStopped, unsubscribeFn, log, cleanupRuns>>
               /\ exc' = NoExc]_vars

\* the consumer unsubscribed a live subscription, and the producer now
\* calls next, error or complete on an Observer that has the callback
C3_Witness ==
    /\ unsubCalls >= 1
    /\ log = <<>>
    /\ Calling({"next", "error", "complete"})
    /\ normalizedObserver.next /\ normalizedObserver.error /\ normalizedObserver.complete

\* C4: for a subscription whose subscribe-procedure returned a cleanup
\* action, k >= 1 calls of unsubscribe() run the cleanup action exactly
\* once, and every call after the first has no effect and raises no error.
C4_UnsubscribeIdempotent ==
    [][/\ (Idle' /\ subscription' = "returned" /\ Normalized(ret') /\ unsubCalls' >= 1)
            => cleanupRuns' = 1
       /\ (Calling({"unsubscribe"}) /\ unsubCalls >= 1)
            => /\ UNCHANGED <<isStopped, unsubscribeFn, log, cleanupRuns>>
               /\ exc' = NoExc]_vars

\* C5: under every interleaving of error, complete and unsubscribe,
\* reentrant calls from the Observer's handlers and from the cleanup action
\* included, the cleanup action runs at most once, and only on a
\* subscription whose flag has been set.
C5_CleanupAtMostOnce ==
    /\ cleanupRuns <= 1
    /\ cleanupRuns = 1 => isStopped

\* the cleanup action is running and calls error, complete or unsubscribe
\* on its own subscription
C5_Witness ==
    /\ cleanupRuns = 1
    /\ Calling(TerminalFns)
    /\ Len(stack) >= 2
    /\ stack[Len(stack) - 1].fn = "cleanup"

\* C6: a subscription whose subscribe-procedure returned a cleanup action
\* has had that action run exactly once by the time it is terminal and
\* subscribe has returned, also when the producer signalled complete or
\* error inside the subscribe-procedure.
C6_CleanupRunsOnTermination ==
    (Idle /\ subscription = "returned" /\ Normalized(ret) /\ isStopped)
        => cleanupRuns = 1

\* C7: when the Observer's next throws e on a non-terminal subscription,
\* the subscription is stopped, Observer.error is invoked exactly once with
\* e, and nothing is thrown out of Subscriber.next.
C7_ConsumerFaultRedirected ==
    \A f \in faults :
        (f.site = "next" /\ ~f.stopped /\ Idle)
            => /\ isStopped
               /\ normalizedObserver.error => ErrorCalls = <<<<"error", f.err>>>>
               /\ EscapedFrom("next") = {}

\* C8: when the subscribe-procedure throws e on a subscription that is not
\* yet terminal, subscribe does not throw, Observer.error is invoked exactly
\* once with e (when the Observer has an error callback), the subscription
\* is stopped, and subscribe returns the Subscription.
C8_ProducerFaultDelivered ==
    /\ subscription # "failed"
    /\ EscapedFrom("subscribe") = {}
    /\ \A f \in faults :
        (f.site = "subscribe" /\ ~f.stopped /\ subscription # "pending")
            => /\ subscription = "returned"
               /\ isStopped
               /\ normalizedObserver.error => ErrorCalls = <<<<"error", f.err>>>>

\* the procedure threw on a live subscription and subscribe has returned
C8_Witness ==
    /\ subscription = "returned"
    /\ normalizedObserver.error
    /\ \E f \in faults : f.site = "subscribe" /\ ~f.stopped /\ f.err = Thrown("procedure")

\* C9: when the Observer's error or complete handler throws, the exception
\* is dropped (it never leaves a library function), the subscription is
\* stopped, and a registered cleanup action still runs, exactly once.
C9_HandlerFaultSwallowed ==
    [][(Len(stack) > 0 /\ Top.fn \in {"error", "complete"} /\ Top.pc = "handler"
            /\ exc # NoExc)
        => /\ exc' = NoExc
           /\ isStopped'
           /\ unsubscribeFn => (cleanupRuns = 0 /\ cleanupRuns' = 1)
           /\ cleanupRuns' <= 1
           /\ \A p \in escaped' : p[2] \notin {Thrown("obsError"), Thrown("obsComplete")}]_vars

\* the handler threw and the registered cleanup action has been started
C9_Witness ==
    /\ cleanupRuns = 1
    /\ \E f \in faults : f.site \in {"error", "complete"}
    /\ Len(stack) > 0 /\ Top.fn = "cleanup"

\* what from(array) delivers to a non-throwing Observer: one next per
\* element in the array's order, then complete
RECURSIVE NextCalls(_)
NextCalls(array) ==
    IF array = <<>> THEN <<>>
    ELSE <<<<"next", Head(array)>>>> \o NextCalls(Tail(array))

Delivered(array) ==
    (IF normalizedObserver.next THEN NextCalls(array) ELSE <<>>)
        \o (IF normalizedObserver.complete THEN <<<<"complete", 0>>>> ELSE <<>>)

\* a step that calls subscriber.next, and the Observer's next calls so far
CallsNext == Len(stack') = Len(stack) + 1 /\ stack'[Len(stack')].fn = "next"
ObserverNexts == SelectSeq(log, LAMBDA c : c[1] = "next")

\* C31: in from(S), once the subscription is stopped in the middle of the
\* iteration the subscribe-procedure calls subscriber.next for none of
\* the remaining elements and no further element reaches the Observer.
C31_FromHaltsWhenStopped ==
    [][(subscribeFn.kind # "custom" /\ isStopped) =>
            /\ ~CallsNext
            /\ ObserverNexts' = ObserverNexts]_vars

\* from(S) with two elements was stopped at the first one and the second
\* one never reached the Observer
C31_Witness ==
    /\ subscribeFn.kind = "from"
    /\ Len(subscribeFn.array) = 2
    /\ isStopped
    /\ Idle
    /\ normalizedObserver.next
    /\ ObserverNexts = <<<<"next", subscribeFn.array[1]>>>>

\* C10: subscribing a non-throwing Observer to from(S) or of(...S) invokes
\* Observer.next once per element of S in S's order, then Observer.complete
\* exactly once, and never Observer.error.
C10_FromDeliversSequence ==
    (subscribeFn.kind = "from" /\ subscription = "returned" /\ faults = {})
        => log = Delivered(subscribeFn.array)

\* from(S) with two different elements has been subscribed by an Observer
\* with all three callbacks, none of which threw
C10_Witness ==
    /\ subscribeFn.kind = "from"
    /\ subscription = "returned"
    /\ faults = {}
    /\ Len(subscribeFn.array) >= 2
    /\ subscribeFn.array[1] # subscribeFn.array[2]
    /\ normalizedObserver.next /\ normalizedObserver.complete /\ normalizedObserver.error
    /\ Len(log) = Len(subscribeFn.array) + 1

\* ============================================================= operator chains
\* map, filter, take, skip (lines 126-255) over a source Observable.  The
\* library code of subscribe (lines 22-119) runs twice, once per subscribe
\* call; a frame names the call it belongs to in its field sub.

\* ------------------------------------------------------------- bounds
\* largest count handed to take and skip
MaxCount == 2
\* iterations of an endless producer's loop that are followed
MaxEmit == 3

Counts == (0 - 1)..MaxCount

\* map(fn), filter(predicate): the function throws on the value throwsOn
\* (0: on none); take(count), skip(count)
Operators ==
    {[op |-> o, count |-> 0, throwsOn |-> x] : o \in {"map", "filter"}, x \in 0..MaxVal}
    \cup {[op |-> o, count |-> n, throwsOn |-> 0] : o \in {"take", "skip"}, n \in Counts}

\* a producer that emits synchronously without end:
\* new Observable(s => { while (true) s.next(...); })
Endless == [kind |-> "endless", array |-> <<>>]

Sources == {Custom, Endless} \cup {From(a) : a \in Arrays}

\* the fn of the spec's example, x => x * 2
Fn(x) == x * 2

\* the predicate of the spec's example, x => x % 2 === 0
Predicate(x) == x % 2 = 0

FnError == "e_fn"
\* line 213 while `const subscription` (line 205) is not yet initialised
ReferenceError == "ReferenceError"

chainConfig == <<operator, source, consumer>>
counters == <<taken, skipped, emitted>>
chainHistory == <<delivered, relayed, sourceRuns, sourceCleanups, unsubscribes,
                  chainFaults>>

\* what no step of a subscribe call on a chain changes
apart == <<single, earlier, others>>

\* no single subscribe call in the run
NoSingle ==
    /\ subscribeFn = Custom
    /\ normalizedObserver = [next |-> FALSE, error |-> FALSE, complete |-> FALSE]
    /\ isStopped = FALSE
    /\ unsubscribeFn = FALSE
    /\ stack = <<>>
    /\ exc = NoExc
    /\ ret = "none"
    /\ subscription = "none"
    /\ budget = 0
    /\ log = <<>>
    /\ cleanupRuns = 0
    /\ unsubCalls = 0
    /\ faults = {}
    /\ escaped = {}

\* lines 27-33: the consumer subscribes with a function (next only) or with
\* an Observer object that has all three callbacks
Consumers == {[next |-> TRUE, error |-> b, complete |-> b] : b \in BOOLEAN}

ChainInit ==
    /\ NoSingle
    /\ NoOthers
    /\ earlier = <<>>
    /\ operator \in Operators
    /\ source \in Sources
    /\ consumer \in Consumers
    /\ subs = [s \in {"down", "up"} |-> NewSub]
    /\ frames = <<>>
    /\ thrown = NoExc
    /\ returned = "none"
    /\ taken = 0
    /\ skipped = 0
    /\ emitted = 0
    /\ calls = MaxCalls
    /\ delivered = <<>>
    /\ relayed = <<>>
    /\ sourceRuns = 0
    /\ sourceCleanups = 0
    /\ unsubscribes = [s \in {"down", "up"} |-> 0]
    /\ chainFaults = {}

\* ------------------------------------------------------------- frames
ChainFrame(fn, pc, sub, arg) == [fn |-> fn, pc |-> pc, sub |-> sub, arg |-> arg]

Current == frames[Len(frames)]
At(fn, pc) == Len(frames) > 0 /\ Current.fn = fn /\ Current.pc = pc
Resume(pc) == [frames EXCEPT ![Len(frames)].pc = pc]
ResumeArg(pc, arg) == [frames EXCEPT ![Len(frames)].pc = pc, ![Len(frames)].arg = arg]

\* return from the running frame, letting out the exception e (or NoExc)
Leave(e) ==
    /\ frames' = SubSeq(frames, 1, Len(frames) - 1)
    /\ thrown' = IF Len(frames) = 1 THEN NoExc ELSE e

Fault(site, sub) ==
    [site |-> site, sub |-> sub, err |-> thrown, stopped |-> subs[sub].isStopped]

\* ------------------------------------------------------------- subscribe, per call
\* line 90, this._subscribeFn(subscriber): the operator's procedure for the
\* consumer's call, the source's procedure for the operator's call (and
\* for the consumer's call when no operator is applied)
Procedure(s) ==
    IF s = "down" /\ operator.op # "none" THEN ChainFrame(operator.op, "start", s, 0)
    ELSE IF source.kind = "from" THEN ChainFrame("from", "loop", s, 1)
    ELSE ChainFrame(source.kind, "run", s, 0)

\* lines 22-90: the frames of a call of subscribe
SubscribeCall(s) == <<ChainFrame("subscribe", "call", s, 0), Procedure(s)>>

\* lines 39-40: the closure state of a new call
Started == [isStopped |-> FALSE, unsubscribeFn |-> FALSE, state |-> "pending"]

\* the consumer subscribes to the operator's Observable
ChainSubscribe ==
    /\ frames = <<>>
    /\ subs["down"].state = "none"
    /\ subs' = [subs EXCEPT !["down"] = Started]
    /\ frames' = SubscribeCall("down")
    /\ UNCHANGED <<apart, chainConfig, thrown, returned, counters, calls, chainHistory>>

\* lines 90-97 and 107: the procedure returned
ChainSubscribeReturn ==
    /\ At("subscribe", "call")
    /\ thrown = NoExc
    /\ subs' = [subs EXCEPT ![Current.sub].unsubscribeFn = Normalized(returned),
                            ![Current.sub].state = "returned"]
    /\ Leave(NoExc)
    /\ UNCHANGED <<apart, chainConfig, returned, counters, calls, chainHistory>>

\* lines 99-100: the procedure threw
ChainSubscribeCatch ==
    /\ At("subscribe", "call")
    /\ thrown # NoExc
    /\ chainFaults' = chainFaults \cup {Fault("subscribe", Current.sub)}
    /\ thrown' = NoExc
    /\ frames' = Append(Resume("catch"), ChainFrame("error", "entry", Current.sub, thrown))
    /\ UNCHANGED <<apart, chainConfig, subs, returned, counters, calls, delivered,
                   relayed, sourceRuns, sourceCleanups, unsubscribes>>

\* lines 100-107: subscriber.error came back
ChainSubscribeReturnAfterCatch ==
    /\ At("subscribe", "catch")
    /\ subs' = [subs EXCEPT ![Current.sub].state =
                                IF thrown = NoExc THEN "returned" ELSE "failed"]
    /\ Leave(thrown)
    /\ UNCHANGED <<apart, chainConfig, returned, counters, calls, chainHistory>>

\* ------------------------------------------------------------- the subscriber, per call
\* lines 44, 56, 72: the consumer's Observer has the callbacks it was given,
\* the operator's Observer (lines 135-145 and alike) has all three
HasCallback(s, kind) ==
    IF s = "up" THEN kind \in {"next", "error", "complete"}
    ELSE \/ kind = "next" /\ consumer.next
         \/ kind = "error" /\ consumer.error
         \/ kind = "complete" /\ consumer.complete

\* lines 46, 58, 74: the callback that is called
Callback(s, kind, arg) ==
    IF s = "up" THEN ChainFrame("relay", kind, s, arg)
    ELSE ChainFrame("observer", kind, s, arg)

\* the consumer's callbacks are recorded as they are invoked
Deliver(s, call) == IF s = "down" THEN Append(delivered, call) ELSE delivered

\* lines 44-46
ChainNext ==
    /\ At("next", "entry")
    /\ ~subs[Current.sub].isStopped
    /\ HasCallback(Current.sub, "next")
    /\ delivered' = Deliver(Current.sub, <<"next", Current.arg>>)
    /\ relayed' = IF Current.sub = "up" THEN Append(relayed, Current.arg) ELSE relayed
    /\ frames' = Append(Resume("try"), Callback(Current.sub, "next", Current.arg))
    /\ UNCHANGED <<apart, chainConfig, subs, thrown, returned, counters, calls,
                   sourceRuns, sourceCleanups, unsubscribes, chainFaults>>

\* line 44, condition false
ChainNextIgnored ==
    /\ At("next", "entry")
    /\ ~(~subs[Current.sub].isStopped /\ HasCallback(Current.sub, "next"))
    /\ Leave(NoExc)
    /\ UNCHANGED <<apart, chainConfig, subs, returned, counters, calls, chainHistory>>

\* lines 46-47
ChainNextDone ==
    /\ At("next", "try")
    /\ thrown = NoExc
    /\ Leave(NoExc)
    /\ UNCHANGED <<apart, chainConfig, subs, returned, counters, calls, chainHistory>>

\* lines 48-50: `this.error(error)` throws a TypeError (see NextCatchThrows)
ChainNextCatch ==
    /\ At("next", "try")
    /\ thrown # NoExc
    /\ chainFaults' = chainFaults \cup {Fault("next", Current.sub)}
    /\ Leave(NextCatchThrows)
    /\ UNCHANGED <<apart, chainConfig, subs, returned, counters, calls, delivered,
                   relayed, sourceRuns, sourceCleanups, unsubscribes>>

\* the cleanup action of a call: lines 148, 180, 221, 253 for the consumer's
\* call, the source's own for the operator's call
CleanupFrame(s) ==
    IF s = "down" THEN ChainFrame("unsubscribeUpstream", "run", s, 0)
    ELSE ChainFrame("cleanup", "run", s, 0)

\* lines 63-64, 80-81, 112-113
ChainRunCleanup ==
    IF subs[Current.sub].unsubscribeFn
    THEN /\ sourceCleanups' = IF Current.sub = "up" THEN sourceCleanups + 1
                              ELSE sourceCleanups
         /\ frames' = Append(Resume("cleanup"), CleanupFrame(Current.sub))
         /\ thrown' = NoExc
    ELSE /\ sourceCleanups' = sourceCleanups
         /\ Leave(NoExc)

\* lines 54-58, 70-74, 109-113
ChainTerminate ==
    /\ Len(frames) > 0
    /\ Current.fn \in TerminalFns
    /\ Current.pc = "entry"
    /\ ~subs[Current.sub].isStopped
    /\ subs' = [subs EXCEPT ![Current.sub].isStopped = TRUE]
    /\ unsubscribes' = IF Current.fn = "unsubscribe"
                       THEN [unsubscribes EXCEPT ![Current.sub] = @ + 1]
                       ELSE unsubscribes
    /\ IF Current.fn # "unsubscribe" /\ HasCallback(Current.sub, Current.fn)
       THEN /\ delivered' = Deliver(Current.sub, Signal(Current.fn, Current.arg))
            /\ frames' = Append(Resume("handler"),
                                Callback(Current.sub, Current.fn, Current.arg))
            /\ UNCHANGED <<thrown, sourceCleanups>>
       ELSE /\ delivered' = delivered
            /\ ChainRunCleanup
    /\ UNCHANGED <<apart, chainConfig, returned, counters, calls, relayed, sourceRuns,
                   chainFaults>>

\* lines 54, 70, 109, condition false
ChainTerminateIgnored ==
    /\ Len(frames) > 0
    /\ Current.fn \in TerminalFns
    /\ Current.pc = "entry"
    /\ subs[Current.sub].isStopped
    /\ unsubscribes' = IF Current.fn = "unsubscribe"
                       THEN [unsubscribes EXCEPT ![Current.sub] = @ + 1]
                       ELSE unsubscribes
    /\ Leave(NoExc)
    /\ UNCHANGED <<apart, chainConfig, subs, returned, counters, calls, delivered,
                   relayed, sourceRuns, sourceCleanups, chainFaults>>

\* error and complete returning after the callback without the cleanup
ChainHandlerDoneNoCleanup ==
    /\ Len(frames) > 0
    /\ Current.fn \in {"error", "complete"}
    /\ Current.pc = "handler"
    /\ chainFaults' = IF thrown = NoExc THEN chainFaults
                      ELSE chainFaults \cup {Fault(Current.fn, Current.sub)}
    /\ sourceCleanups' = sourceCleanups
    /\ Leave(NoExc)
    /\ UNCHANGED <<apart, chainConfig, subs, returned, counters, calls, delivered,
                   relayed, sourceRuns, unsubscribes>>

\* lines 57-66, 73-83: the callback came back, what it threw is dropped
ChainHandlerDone ==
    /\ Len(frames) > 0
    /\ Current.fn \in {"error", "complete"}
    /\ Current.pc = "handler"
    /\ chainFaults' = IF thrown = NoExc THEN chainFaults
                      ELSE chainFaults \cup {Fault(Current.fn, Current.sub)}
    /\ ChainRunCleanup
    /\ UNCHANGED <<apart, chainConfig, subs, returned, counters, calls, delivered,
                   relayed, sourceRuns, unsubscribes>>

\* lines 64-65, 81-82, 113-114: the cleanup action came back
ChainCleanupDone ==
    /\ Len(frames) > 0
    /\ Current.fn \in TerminalFns
    /\ Current.pc = "cleanup"
    /\ subs' = [subs EXCEPT ![Current.sub].unsubscribeFn =
                                IF thrown = NoExc THEN FALSE ELSE @]
    /\ Leave(thrown)
    /\ UNCHANGED <<apart, chainConfig, returned, counters, calls, chainHistory>>

\* ------------------------------------------------------------- the operators' procedures
OperatorFns == {"map", "filter", "take", "skip"}

Downstream(fn, arg) == ChainFrame(fn, "entry", "down", arg)
Upstream(fn, arg) == ChainFrame(fn, "entry", "up", arg)

TakeNothingNegative == operator.op = "take" /\ operator.count < 0

\* line 199
TakeNothing == operator.op = "take" /\ operator.count <= 0

\* lines 199-200: take(count) with count <= 0 completes at once
TakeComplete ==
    /\ At("take", "start")
    /\ TakeNothing
    /\ frames' = Append(Resume("completed"), Downstream("complete", 0))
    /\ UNCHANGED <<apart, chainConfig, subs, thrown, returned, counters, calls,
                   chainHistory>>

\* counters kept by the operator's Observable instead of by the call
OperatorSubscribeKeepsCounters ==
    /\ Len(frames) > 0
    /\ Current.fn \in OperatorFns
    /\ Current.pc = "start"
    /\ ~TakeNothing
    /\ taken' = taken
    /\ skipped' = skipped
    /\ subs' = [subs EXCEPT !["up"] = Started]
    /\ sourceRuns' = sourceRuns + 1
    /\ frames' = Resume("subscribed") \o SubscribeCall("up")
    /\ UNCHANGED <<apart, chainConfig, thrown, returned, emitted, calls, delivered,
                   relayed, sourceCleanups, unsubscribes, chainFaults>>

\* lines 134, 165, 204-205, 239-240: the operator subscribes to the source
OperatorSubscribe ==
    /\ Len(frames) > 0
    /\ Current.fn \in OperatorFns
    /\ Current.pc = "start"
    /\ ~TakeNothing
    /\ taken' = 0
    /\ skipped' = 0
    /\ subs' = [subs EXCEPT !["up"] = Started]
    /\ sourceRuns' = sourceRuns + 1
    /\ frames' = Resume("subscribed") \o SubscribeCall("up")
    /\ UNCHANGED <<apart, chainConfig, thrown, returned, emitted, calls, delivered,
                   relayed, sourceCleanups, unsubscribes, chainFaults>>

\* lines 148, 180, 221, 253 return the cleanup action; line 201 returns
\* nothing
OperatorReturn ==
    /\ Len(frames) > 0
    /\ Current.fn \in OperatorFns
    /\ Current.pc \in {"subscribed", "completed"}
    /\ returned' = IF thrown # NoExc THEN returned
                   ELSE IF Current.pc = "completed" THEN "none" ELSE "function"
    /\ Leave(thrown)
    /\ UNCHANGED <<apart, chainConfig, subs, counters, calls, chainHistory>>

\* lines 148, 180, 221, 253: () => subscription.unsubscribe()
UnsubscribeUpstream ==
    /\ At("unsubscribeUpstream", "run")
    /\ frames' = Append(Resume("done"), Upstream("unsubscribe", 0))
    /\ UNCHANGED <<apart, chainConfig, subs, thrown, returned, counters, calls,
                   chainHistory>>

UnsubscribeUpstreamDone ==
    /\ At("unsubscribeUpstream", "done")
    /\ Leave(thrown)
    /\ UNCHANGED <<apart, chainConfig, subs, returned, counters, calls, chainHistory>>

\* ------------------------------------------------------------- the operators' Observers
\* the operator's error callback completing the downstream
RelayErrorCompletes ==
    /\ At("relay", "error")
    /\ frames' = Append(Resume("done"), Downstream("complete", 0))
    /\ UNCHANGED <<apart, chainConfig, subs, thrown, returned, counters, calls,
                   chainHistory>>

\* lines 144, 176, 217, 249: error: (error) => subscriber.error(error)
RelayError ==
    /\ At("relay", "error")
    /\ frames' = Append(Resume("done"), Downstream("error", Current.arg))
    /\ UNCHANGED <<apart, chainConfig, subs, thrown, returned, counters, calls,
                   chainHistory>>

\* lines 145, 177, 218, 250: complete: () => subscriber.complete()
RelayComplete ==
    /\ At("relay", "complete")
    /\ frames' = Append(Resume("done"), Downstream("complete", 0))
    /\ UNCHANGED <<apart, chainConfig, subs, thrown, returned, counters, calls,
                   chainHistory>>

\* the last call of a callback came back: the callback returns, or lets
\* through what the call threw
RelayDone ==
    /\ At("relay", "done")
    /\ Leave(thrown)
    /\ UNCHANGED <<apart, chainConfig, subs, returned, counters, calls, chainHistory>>

\* the function handed to map or filter throws on this value
FnThrows(value) == operator.throwsOn = value

TransformCatchCompletes(error) ==
    /\ chainFaults' = chainFaults \cup
            {[site |-> "transform", sub |-> "down", err |-> error,
              stopped |-> subs["down"].isStopped,
              armed |-> subs["down"].unsubscribeFn]}
    /\ thrown' = NoExc
    /\ frames' = Append(Resume("done"), Downstream("complete", 0))

\* lines 140-141, 172-173: catch(error){ subscriber.error(error) }
TransformCatch(error) ==
    /\ chainFaults' = chainFaults \cup
            {[site |-> "transform", sub |-> "down", err |-> error,
              stopped |-> subs["down"].isStopped,
              armed |-> subs["down"].unsubscribeFn]}
    /\ thrown' = NoExc
    /\ frames' = Append(Resume("done"), Downstream("error", error))

MapNextUntransformed ==
    /\ At("relay", "next")
    /\ operator.op = "map"
    /\ IF FnThrows(Current.arg)
       THEN TransformCatch(FnError)
       ELSE /\ frames' = Append(Resume("try"), Downstream("next", Current.arg))
            /\ UNCHANGED <<thrown, chainFaults>>
    /\ UNCHANGED <<apart, chainConfig, subs, returned, counters, calls, delivered,
                   relayed, sourceRuns, sourceCleanups, unsubscribes>>

\* lines 135-139: map's next
MapNext ==
    /\ At("relay", "next")
    /\ operator.op = "map"
    /\ IF FnThrows(Current.arg)
       THEN TransformCatch(FnError)
       ELSE /\ frames' = Append(Resume("try"), Downstream("next", Fn(Current.arg)))
            /\ UNCHANGED <<thrown, chainFaults>>
    /\ UNCHANGED <<apart, chainConfig, subs, returned, counters, calls, delivered,
                   relayed, sourceRuns, sourceCleanups, unsubscribes>>

FilterNextForwardsAll ==
    /\ At("relay", "next")
    /\ operator.op = "filter"
    /\ IF FnThrows(Current.arg)
       THEN TransformCatch(FnError)
       ELSE /\ frames' = Append(Resume("try"), Downstream("next", Current.arg))
            /\ UNCHANGED <<thrown, chainFaults>>
    /\ UNCHANGED <<apart, chainConfig, subs, returned, counters, calls, delivered,
                   relayed, sourceRuns, sourceCleanups, unsubscribes>>

\* lines 166-171: filter's next
FilterNext ==
    /\ At("relay", "next")
    /\ operator.op = "filter"
    /\ IF FnThrows(Current.arg)
       THEN TransformCatch(FnError)
       ELSE IF Predicate(Current.arg)
       THEN /\ frames' = Append(Resume("try"), Downstream("next", Current.arg))
            /\ UNCHANGED <<thrown, chainFaults>>
       ELSE /\ Leave(NoExc)
            /\ UNCHANGED chainFaults
    /\ UNCHANGED <<apart, chainConfig, subs, returned, counters, calls, delivered,
                   relayed, sourceRuns, sourceCleanups, unsubscribes>>

\* lines 138-141, 169-173: subscriber.next came back inside the try block
TransformForwarded ==
    /\ At("relay", "try")
    /\ IF thrown # NoExc
       THEN TransformCatch(thrown)
       ELSE /\ Leave(NoExc)
            /\ UNCHANGED chainFaults
    /\ UNCHANGED <<apart, chainConfig, subs, returned, counters, calls, delivered,
                   relayed, sourceRuns, sourceCleanups, unsubscribes>>

\* line 207
TakeGuard == taken < operator.count

\* lines 207-208: take's next
TakeNext ==
    /\ At("relay", "next")
    /\ operator.op = "take"
    /\ IF TakeGuard
       THEN /\ frames' = Append(Resume("forwarded"), Downstream("next", Current.arg))
            /\ thrown' = thrown
       ELSE Leave(NoExc)
    /\ UNCHANGED <<apart, chainConfig, subs, returned, counters, calls, chainHistory>>

TakeDoneLate(n) == n > operator.count

\* line 211
TakeDone(n) == n >= operator.count

TakeCountUnsubscribesFirst ==
    /\ At("relay", "forwarded")
    /\ IF thrown # NoExc
       THEN /\ Leave(thrown)
            /\ taken' = taken
       ELSE /\ taken' = taken + 1
            /\ IF TakeDone(taken + 1)
               THEN /\ frames' = Append(Resume("completed"), Upstream("unsubscribe", 0))
                    /\ thrown' = thrown
               ELSE Leave(NoExc)
    /\ UNCHANGED <<apart, chainConfig, subs, returned, skipped, emitted, calls,
                   chainHistory>>

\* lines 209-212: count the value; complete downstream after the last one
TakeCount ==
    /\ At("relay", "forwarded")
    /\ IF thrown # NoExc
       THEN /\ Leave(thrown)
            /\ taken' = taken
       ELSE /\ taken' = taken + 1
            /\ IF TakeDone(taken + 1)
               THEN /\ frames' = Append(Resume("completed"), Downstream("complete", 0))
                    /\ thrown' = thrown
               ELSE Leave(NoExc)
    /\ UNCHANGED <<apart, chainConfig, subs, returned, skipped, emitted, calls,
                   chainHistory>>

\* line 213, `subscription.unsubscribe()`: `const subscription` (line 205)
\* is initialised when this.subscribe(...) has returned; reading it before
\* throws a ReferenceError
SubscriptionInitialised == subs["up"].state = "returned"

\* line 213: unsubscribe from the source
TakeUnsubscribe ==
    /\ At("relay", "completed")
    /\ IF thrown # NoExc THEN Leave(thrown)
       ELSE IF SubscriptionInitialised
       THEN /\ frames' = Append(Resume("done"), Upstream("unsubscribe", 0))
            /\ thrown' = thrown
       ELSE Leave(ReferenceError)
    /\ UNCHANGED <<apart, chainConfig, subs, returned, counters, calls, chainHistory>>

SkipGuardOffByOne == skipped > operator.count

\* line 242
SkipGuard == skipped >= operator.count

\* lines 241-247: skip's next
SkipNext ==
    /\ At("relay", "next")
    /\ operator.op = "skip"
    /\ IF SkipGuard
       THEN /\ frames' = Append(Resume("done"), Downstream("next", Current.arg))
            /\ UNCHANGED <<thrown, skipped>>
       ELSE /\ skipped' = skipped + 1
            /\ Leave(NoExc)
    /\ UNCHANGED <<apart, chainConfig, subs, returned, taken, emitted, calls,
                   chainHistory>>

\* ------------------------------------------------------------- the sources
\* lines 270-274: from's loop (see FromLoop)
ChainFromLoop ==
    /\ At("from", "loop")
    /\ thrown = NoExc
    /\ IF Current.arg <= Len(source.array) /\ ~SubscriberIsStopped
       THEN frames' = Append(ResumeArg("loop", Current.arg + 1),
                             ChainFrame("next", "entry", Current.sub,
                                        FromElement(source.array, Current.arg)))
       ELSE frames' = Append(Resume("done"),
                             ChainFrame("complete", "entry", Current.sub, 0))
    /\ UNCHANGED <<apart, chainConfig, subs, thrown, returned, counters, calls,
                   chainHistory>>

\* line 276
ChainFromReturn ==
    /\ At("from", "done")
    /\ thrown = NoExc
    /\ returned' = "function"
    /\ Leave(NoExc)
    /\ UNCHANGED <<apart, chainConfig, subs, counters, calls, chainHistory>>

\* lines 270-274 have no try
ChainFromThrow ==
    /\ Len(frames) > 0
    /\ Current.fn = "from"
    /\ thrown # NoExc
    /\ Leave(thrown)
    /\ UNCHANGED <<apart, chainConfig, subs, returned, counters, calls, chainHistory>>

\* the value of the i-th iteration of the endless producer
EndlessValue(i) == (i % MaxVal) + 1

\* while (true) subscriber.next(...): the next iteration
EndlessLoop ==
    /\ At("endless", "run")
    /\ thrown = NoExc
    /\ emitted < MaxEmit
    /\ emitted' = emitted + 1
    /\ frames' = Append(frames, Upstream("next", EndlessValue(emitted)))
    /\ UNCHANGED <<apart, chainConfig, subs, thrown, returned, taken, skipped, calls,
                   chainHistory>>

\* the loop has no try: what subscriber.next throws ends it
EndlessThrow ==
    /\ At("endless", "run")
    /\ thrown # NoExc
    /\ Leave(thrown)
    /\ UNCHANGED <<apart, chainConfig, subs, returned, counters, calls, chainHistory>>

\* ------------------------------------------------------------- environment
\* the calls a producer makes on the subscriber it was handed
Emissions == {Upstream("next", v) : v \in Values}
             \cup {Upstream("error", SignalError), Upstream("complete", 0)}

\* a terminal signal of the producer, recorded with what it finds: is the
\* source's subscription stopped, is the chain's own one, is the signal made
\* from a later task, is a cleanup action registered for the source
Signalled(c) ==
    [site |-> "signal", sub |-> "up", kind |-> c.fn, err |-> c.arg,
     stopped |-> subs["up"].isStopped, terminal |-> subs["down"].isStopped,
     deferred |-> frames = <<>>, armed |-> subs["up"].unsubscribeFn]

\* the producer signalling an error itself is recorded
Emit(c) ==
    /\ calls > 0
    /\ calls' = calls - 1
    /\ chainFaults' = IF c.fn = "error"
                      THEN chainFaults \cup {[site |-> "source", sub |-> "up",
                                              err |-> c.arg, stopped |-> subs["up"].isStopped],
                                             Signalled(c)}
                      ELSE IF c.fn = "complete" THEN chainFaults \cup {Signalled(c)}
                      ELSE chainFaults

\* a user-written subscribe-procedure calls the subscriber
SourceCall ==
    /\ At("custom", "run")
    /\ thrown = NoExc
    /\ \E c \in Emissions :
        /\ Emit(c)
        /\ frames' = Append(frames, c)
    /\ UNCHANGED <<apart, chainConfig, subs, thrown, returned, counters, delivered,
                   relayed, sourceRuns, sourceCleanups, unsubscribes>>

\* it throws an error of its own
SourceThrow ==
    /\ At("custom", "run")
    /\ thrown = NoExc
    /\ chainFaults' = chainFaults \cup {[site |-> "source", sub |-> "up",
                                         err |-> Thrown("procedure"),
                                         stopped |-> subs["up"].isStopped]}
    /\ Leave(Thrown("procedure"))
    /\ UNCHANGED <<apart, chainConfig, subs, returned, counters, calls, delivered,
                   relayed, sourceRuns, sourceCleanups, unsubscribes>>

\* it returns nothing or a cleanup action
SourceReturn ==
    /\ At("custom", "run")
    /\ thrown = NoExc
    /\ returned' \in {"none", "function"}
    /\ Leave(NoExc)
    /\ UNCHANGED <<apart, chainConfig, subs, counters, calls, chainHistory>>

\* a call it made threw and it catches
SourceCatch ==
    /\ At("custom", "run")
    /\ thrown # NoExc
    /\ thrown' = NoExc
    /\ UNCHANGED <<apart, chainConfig, subs, frames, returned, counters, calls,
                   chainHistory>>

\* a call it made threw and it lets the exception through
SourcePropagate ==
    /\ At("custom", "run")
    /\ thrown # NoExc
    /\ Leave(thrown)
    /\ UNCHANGED <<apart, chainConfig, subs, returned, counters, calls, chainHistory>>

\* the source's cleanup action returns
SourceCleanupReturn ==
    /\ At("cleanup", "run")
    /\ Leave(NoExc)
    /\ UNCHANGED <<apart, chainConfig, subs, returned, counters, calls, chainHistory>>

\* the source's cleanup action throws (from's is empty, line 276)
SourceCleanupThrow ==
    /\ At("cleanup", "run")
    /\ source.kind # "from"
    /\ Leave(Thrown("cleanup"))
    /\ UNCHANGED <<apart, chainConfig, subs, returned, counters, calls, chainHistory>>

\* a callback of the consumer's Observer returns, or lets through what its
\* unsubscribe() threw
ConsumerReturn ==
    /\ Len(frames) > 0
    /\ Current.fn = "observer"
    /\ Leave(thrown)
    /\ UNCHANGED <<apart, chainConfig, subs, returned, counters, calls, chainHistory>>

\* a callback of the consumer's Observer throws
ConsumerThrow ==
    /\ Len(frames) > 0
    /\ Current.fn = "observer"
    /\ thrown = NoExc
    /\ chainFaults' = chainFaults \cup {[site |-> "observer", sub |-> "down",
                                         err |-> Thrown(Current.pc),
                                         stopped |-> subs["down"].isStopped]}
    /\ Leave(Thrown(Current.pc))
    /\ UNCHANGED <<apart, chainConfig, subs, returned, counters, calls, delivered,
                   relayed, sourceRuns, sourceCleanups, unsubscribes>>

\* the consumer calls unsubscribe() on the chain's Subscription: recorded
\* with what the call finds (is the chain's own subscription stopped, is the
\* source's subscription live, how many callbacks the Observer has had)
Cancel ==
    [site |-> "unsubscribe", sub |-> "down", err |-> NoExc,
     stopped |-> subs["down"].isStopped,
     live |-> subs["up"].state = "returned" /\ ~subs["up"].isStopped,
     seen |-> Len(delivered)]

\* a callback of the consumer's Observer unsubscribes
ConsumerUnsubscribe ==
    /\ Len(frames) > 0
    /\ Current.fn = "observer"
    /\ thrown = NoExc
    /\ subs["down"].state = "returned"
    /\ calls > 0
    /\ calls' = calls - 1
    /\ frames' = Append(frames, Downstream("unsubscribe", 0))
    /\ chainFaults' = chainFaults \cup {Cancel}
    /\ UNCHANGED <<apart, chainConfig, subs, thrown, returned, counters, delivered,
                   relayed, sourceRuns, sourceCleanups, unsubscribes>>

\* a later task: a deferred producer emits
ProducerTask ==
    /\ frames = <<>>
    /\ source.kind = "custom"
    /\ subs["up"].state = "returned"
    /\ \E c \in Emissions :
        /\ Emit(c)
        /\ frames' = <<c>>
    /\ UNCHANGED <<apart, chainConfig, subs, thrown, returned, counters, delivered,
                   relayed, sourceRuns, sourceCleanups, unsubscribes>>

\* a later task: the consumer unsubscribes
ConsumerTask ==
    /\ frames = <<>>
    /\ subs["down"].state = "returned"
    /\ calls > 0
    /\ calls' = calls - 1
    /\ frames' = <<Downstream("unsubscribe", 0)>>
    /\ chainFaults' = chainFaults \cup {Cancel}
    /\ UNCHANGED <<apart, chainConfig, subs, thrown, returned, counters, delivered,
                   relayed, sourceRuns, sourceCleanups, unsubscribes>>

ChainStep ==
    \/ ChainSubscribe
    \/ ChainSubscribeReturn
    \/ ChainSubscribeCatch
    \/ ChainSubscribeReturnAfterCatch
    \/ ChainNext
    \/ ChainNextIgnored
    \/ ChainNextDone
    \/ ChainNextCatch
    \/ ChainTerminate
    \/ ChainTerminateIgnored
    \/ ChainHandlerDone
    \/ ChainCleanupDone
    \/ TakeComplete
    \/ OperatorSubscribe
    \/ OperatorReturn
    \/ UnsubscribeUpstream
    \/ UnsubscribeUpstreamDone
    \/ RelayError
    \/ RelayComplete
    \/ RelayDone
    \/ MapNext
    \/ FilterNext
    \/ TransformForwarded
    \/ TakeNext
    \/ TakeCount
    \/ TakeUnsubscribe
    \/ SkipNext
    \/ ChainFromLoop
    \/ ChainFromReturn
    \/ ChainFromThrow
    \/ EndlessLoop
    \/ EndlessThrow
    \/ SourceCall
    \/ SourceThrow
    \/ SourceReturn
    \/ SourceCatch
    \/ SourcePropagate
    \/ SourceCleanupReturn
    \/ SourceCleanupThrow
    \/ ConsumerReturn
    \/ ConsumerThrow
    \/ ConsumerUnsubscribe
    \/ ProducerTask
    \/ ConsumerTask

SpecChain == ChainInit /\ [][ChainStep]_vars

\* ------------------------------------------------------------- subscribing again
\* how many times one Observable is subscribed to
MaxSubscribes == 2

\* from(S), from(S).take(count), from(S).skip(count), S being 1, 2, ... up
\* to some length (take and skip do not look at the values)
ColdOperators ==
    {[op |-> "none", count |-> 0, throwsOn |-> 0]}
        \cup {o \in Operators : o.op \in {"take", "skip"}}

ColdInit ==
    /\ NoSingle
    /\ NoOthers
    /\ earlier = <<>>
    /\ operator \in ColdOperators
    /\ source \in {From([i \in 1..n |-> i]) : n \in 0..MaxLen}
    /\ consumer \in Consumers
    /\ subs = [s \in {"down", "up"} |-> NewSub]
    /\ frames = <<>>
    /\ thrown = NoExc
    /\ returned = "none"
    /\ taken = 0
    /\ skipped = 0
    /\ emitted = 0
    /\ calls = MaxCalls
    /\ delivered = <<>>
    /\ relayed = <<>>
    /\ sourceRuns = 0
    /\ sourceCleanups = 0
    /\ unsubscribes = [s \in {"down", "up"} |-> 0]
    /\ chainFaults = {}

\* lines 22-90: subscribe is called once more on the same Observable, with
\* another Observer; the call gets closure state of its own (lines 39-40)
Resubscribe ==
    /\ frames = <<>>
    /\ subs["down"].state # "none"
    /\ Len(earlier) + 1 < MaxSubscribes
    /\ earlier' = Append(earlier, delivered)
    /\ delivered' = <<>>
    /\ relayed' = <<>>
    /\ subs' = [s \in {"down", "up"} |-> IF s = "down" THEN Started ELSE NewSub]
    /\ unsubscribes' = [s \in {"down", "up"} |-> 0]
    /\ frames' = SubscribeCall("down")
    /\ UNCHANGED <<single, others, chainConfig, thrown, returned, counters, calls,
                   sourceRuns, sourceCleanups, chainFaults>>

\* the steps of ChainStep that from(S), take and skip can take (everything
\* happens inside subscribe), and subscribing again
ColdStep ==
    \/ ChainSubscribe
    \/ ChainSubscribeReturn
    \/ ChainSubscribeCatch
    \/ ChainSubscribeReturnAfterCatch
    \/ ChainNext
    \/ ChainNextDone
    \/ ChainNextCatch
    \/ ChainTerminate
    \/ ChainTerminateIgnored
    \/ ChainHandlerDone
    \/ TakeComplete
    \/ OperatorSubscribe
    \/ OperatorReturn
    \/ RelayError
    \/ RelayComplete
    \/ RelayDone
    \/ TakeNext
    \/ TakeCount
    \/ TakeUnsubscribe
    \/ SkipNext
    \/ ChainFromLoop
    \/ ChainFromReturn
    \/ ChainFromThrow
    \/ ConsumerReturn
    \/ ConsumerThrow
    \/ ConsumerTask
    \/ Resubscribe

SpecCold == ColdInit /\ [][ColdStep]_vars

\* ------------------------------------------------------------- two subscribe calls
\* environment calls in a run of two subscribe calls
MaxPairCalls == 3

besidePair == <<single, chain, lru, manager, emitter, retrying, machine, pipeline>>

PairInit ==
    /\ NoSingle
    /\ NoChain
    /\ NoCache
    /\ NoManager
    /\ NoEmitter
    /\ NoRetry
    /\ NoMachine
    /\ NoPipeline
    /\ closures = [i \in Ids |-> NewSub]
    /\ pairStack = <<>>
    /\ pairExc = NoExc
    /\ pairRet = "none"
    /\ pairBudget = MaxPairCalls
    /\ pairLog = [i \in Ids |-> <<>>]
    /\ pairCleanups = [i \in Ids |-> 0]
    /\ pairFaults = {}

Inner == pairStack[Len(pairStack)]
In(fn, pc) == Len(pairStack) > 0 /\ Inner.fn = fn /\ Inner.pc = pc
Proceed(pc) == [pairStack EXCEPT ![Len(pairStack)].pc = pc]

\* return from the running frame, letting out the exception e (or NoExc)
Exit(e) ==
    /\ pairStack' = SubSeq(pairStack, 1, Len(pairStack) - 1)
    /\ pairExc' = IF Len(pairStack) = 1 THEN NoExc ELSE e

\* lines 22-90: subscribe(observer) is called, for the first and then for
\* the second time
PairSubscribe ==
    /\ pairStack = <<>>
    /\ \E i \in Ids :
        /\ closures[i].state = "none"
        /\ \A j \in Ids : j < i => closures[j].state # "none"
        /\ closures' = [closures EXCEPT ![i] = Started]
        /\ pairStack' = <<ChainFrame("subscribe", "call", i, 0),
                          ChainFrame("producer", "run", i, 0)>>
    /\ UNCHANGED <<besidePair, pairExc, pairRet, pairBudget, pairLog, pairCleanups,
                   pairFaults>>

\* lines 90-97 and 107
PairSubscribeReturn ==
    /\ In("subscribe", "call")
    /\ pairExc = NoExc
    /\ closures' = [closures EXCEPT ![Inner.sub].unsubscribeFn = Normalized(pairRet),
                                    ![Inner.sub].state = "returned"]
    /\ Exit(NoExc)
    /\ UNCHANGED <<besidePair, pairRet, pairBudget, pairLog, pairCleanups, pairFaults>>

\* lines 99-100
PairSubscribeCatch ==
    /\ In("subscribe", "call")
    /\ pairExc # NoExc
    /\ pairExc' = NoExc
    /\ pairStack' = Append(Proceed("catch"),
                           ChainFrame("error", "entry", Inner.sub, pairExc))
    /\ UNCHANGED <<besidePair, closures, pairRet, pairBudget, pairLog, pairCleanups,
                   pairFaults>>

\* lines 100-107
PairSubscribeReturnAfterCatch ==
    /\ In("subscribe", "catch")
    /\ closures' = [closures EXCEPT ![Inner.sub].state =
                                        IF pairExc = NoExc THEN "returned" ELSE "failed"]
    /\ Exit(pairExc)
    /\ UNCHANGED <<besidePair, pairRet, pairBudget, pairLog, pairCleanups, pairFaults>>

\* lines 44-46: subscriber.next of the call the subscriber belongs to
PairNext ==
    /\ In("next", "entry")
    /\ ~closures[Inner.sub].isStopped
    /\ pairLog' = [pairLog EXCEPT ![Inner.sub] = Append(@, <<"next", Inner.arg>>)]
    /\ pairStack' = Append(Proceed("try"),
                           ChainFrame("observer", "next", Inner.sub, Inner.arg))
    /\ UNCHANGED <<besidePair, closures, pairExc, pairRet, pairBudget, pairCleanups,
                   pairFaults>>

\* line 44, condition false
PairNextIgnored ==
    /\ In("next", "entry")
    /\ closures[Inner.sub].isStopped
    /\ Exit(NoExc)
    /\ UNCHANGED <<besidePair, closures, pairRet, pairBudget, pairLog, pairCleanups,
                   pairFaults>>

\* lines 46-50: the callback returned, or it threw and `this.error(error)`
\* throws a TypeError (see NextCatchThrows)
PairNextDone ==
    /\ In("next", "try")
    /\ Exit(IF pairExc = NoExc THEN NoExc ELSE NextCatchThrows)
    /\ UNCHANGED <<besidePair, closures, pairRet, pairBudget, pairLog, pairCleanups,
                   pairFaults>>

\* lines 55, 71, 110: isStopped = true, a local of the call (line 39)
Stop(i) == [closures EXCEPT ![i].isStopped = TRUE]

\* lines 63-64, 80-81, 112-113
PairRunCleanup ==
    IF closures[Inner.sub].unsubscribeFn
    THEN /\ pairCleanups' = [pairCleanups EXCEPT ![Inner.sub] = @ + 1]
         /\ pairStack' = Append(Proceed("cleanup"),
                                ChainFrame("cleanup", "run", Inner.sub, 0))
         /\ pairExc' = NoExc
    ELSE /\ pairCleanups' = pairCleanups
         /\ Exit(NoExc)

\* lines 54-58, 70-74, 109-113
PairTerminate ==
    /\ Len(pairStack) > 0
    /\ Inner.fn \in TerminalFns
    /\ Inner.pc = "entry"
    /\ ~closures[Inner.sub].isStopped
    /\ closures' = Stop(Inner.sub)
    /\ IF Inner.fn # "unsubscribe"
       THEN /\ pairLog' = [pairLog EXCEPT ![Inner.sub] =
                                          Append(@, Signal(Inner.fn, Inner.arg))]
            /\ pairStack' = Append(Proceed("handler"),
                                   ChainFrame("observer", Inner.fn, Inner.sub, Inner.arg))
            /\ UNCHANGED <<pairExc, pairCleanups>>
       ELSE /\ pairLog' = pairLog
            /\ PairRunCleanup
    /\ UNCHANGED <<besidePair, pairRet, pairBudget, pairFaults>>

\* lines 54, 70, 109, condition false
PairTerminateIgnored ==
    /\ Len(pairStack) > 0
    /\ Inner.fn \in TerminalFns
    /\ Inner.pc = "entry"
    /\ closures[Inner.sub].isStopped
    /\ Exit(NoExc)
    /\ UNCHANGED <<besidePair, closures, pairRet, pairBudget, pairLog, pairCleanups,
                   pairFaults>>

\* lines 57-66, 73-83: what the callback threw is dropped
PairHandlerDone ==
    /\ Len(pairStack) > 0
    /\ Inner.fn \in {"error", "complete"}
    /\ Inner.pc = "handler"
    /\ PairRunCleanup
    /\ UNCHANGED <<besidePair, closures, pairRet, pairBudget, pairLog, pairFaults>>

\* lines 64-65, 81-82, 113-114
PairCleanupDone ==
    /\ Len(pairStack) > 0
    /\ Inner.fn \in TerminalFns
    /\ Inner.pc = "cleanup"
    /\ closures' = [closures EXCEPT ![Inner.sub].unsubscribeFn =
                                        IF pairExc = NoExc THEN FALSE ELSE @]
    /\ Exit(pairExc)
    /\ UNCHANGED <<besidePair, pairRet, pairBudget, pairLog, pairCleanups, pairFaults>>

\* the subscribers user code can hold: those of the calls made so far
Subscribers == {i \in Ids : closures[i].state # "none"}

\* a call of next, error or complete on one of them
Signals ==
    {ChainFrame(fn, "entry", i, IF fn = "error" THEN SignalError ELSE 1) :
        fn \in {"next", "error", "complete"}, i \in Subscribers}

\* a subscribe-procedure calls a subscriber, its own or one it kept from
\* the earlier call
ProducerCall ==
    /\ In("producer", "run")
    /\ pairExc = NoExc
    /\ pairBudget > 0
    /\ pairBudget' = pairBudget - 1
    /\ \E c \in Signals : pairStack' = Append(pairStack, c)
    /\ UNCHANGED <<besidePair, closures, pairExc, pairRet, pairLog, pairCleanups,
                   pairFaults>>

\* it returns nothing or a cleanup action
ProducerReturn ==
    /\ In("producer", "run")
    /\ pairExc = NoExc
    /\ pairRet' \in {"none", "function"}
    /\ Exit(NoExc)
    /\ UNCHANGED <<besidePair, closures, pairBudget, pairLog, pairCleanups, pairFaults>>

\* it throws, or lets through what a call it made threw
ProducerThrow ==
    /\ In("producer", "run")
    /\ Exit(IF pairExc = NoExc THEN Thrown("procedure") ELSE pairExc)
    /\ UNCHANGED <<besidePair, closures, pairRet, pairBudget, pairLog, pairCleanups,
                   pairFaults>>

\* it catches what a call it made threw
ProducerCatch ==
    /\ In("producer", "run")
    /\ pairExc # NoExc
    /\ pairExc' = NoExc
    /\ UNCHANGED <<besidePair, closures, pairStack, pairRet, pairBudget, pairLog,
                   pairCleanups, pairFaults>>

\* a callback of an Observer returns
ObserverReturn ==
    /\ Len(pairStack) > 0
    /\ Inner.fn = "observer"
    /\ Exit(NoExc)
    /\ UNCHANGED <<besidePair, closures, pairRet, pairBudget, pairLog, pairCleanups,
                   pairFaults>>

\* a callback of an Observer throws: a consumer fault of that call
ObserverThrow ==
    /\ Len(pairStack) > 0
    /\ Inner.fn = "observer"
    /\ pairFaults' = pairFaults \cup {[sub |-> Inner.sub, callback |-> Inner.pc]}
    /\ Exit(Thrown(Inner.pc))
    /\ UNCHANGED <<besidePair, closures, pairRet, pairBudget, pairLog, pairCleanups>>

\* a cleanup action returns
CleanupReturn ==
    /\ In("cleanup", "run")
    /\ Exit(NoExc)
    /\ UNCHANGED <<besidePair, closures, pairRet, pairBudget, pairLog, pairCleanups,
                   pairFaults>>

\* a later task: a deferred producer calls a subscriber, or a consumer
\* calls unsubscribe() on a Subscription it was returned
PairTask ==
    /\ pairStack = <<>>
    /\ pairBudget > 0
    /\ pairBudget' = pairBudget - 1
    /\ \E c \in Signals \cup {ChainFrame("unsubscribe", "entry", i, 0) : i \in Subscribers} :
        /\ closures[c.sub].state = "returned"
        /\ pairStack' = <<c>>
    /\ UNCHANGED <<besidePair, closures, pairExc, pairRet, pairLog, pairCleanups,
                   pairFaults>>

PairStep ==
    \/ PairSubscribe
    \/ PairSubscribeReturn
    \/ PairSubscribeCatch
    \/ PairSubscribeReturnAfterCatch
    \/ PairNext
    \/ PairNextIgnored
    \/ PairNextDone
    \/ PairTerminate
    \/ PairTerminateIgnored
    \/ PairHandlerDone
    \/ PairCleanupDone
    \/ ProducerCall
    \/ ProducerReturn
    \/ ProducerThrow
    \/ ProducerCatch
    \/ ObserverReturn
    \/ ObserverThrow
    \/ CleanupReturn
    \/ PairTask

SpecPair == PairInit /\ [][PairStep]_vars

\* ------------------------------------------------------------- LRUCache
\* keys put into a cache, and the largest capacity of one
MaxKeys == 3
MaxCapacity == 2

Keys == 1..MaxKeys
CacheValues == {"a", "b"}
\* `undefined`
Undefined == 0

besideCache == <<single, chain, pair, manager, emitter, retrying, machine, pipeline>>

\* Map.prototype.has
MapHas(m, k) == \E n \in 1..Len(m) : m[n].key = k

\* Map.prototype.get
MapGet(m, k) ==
    IF MapHas(m, k) THEN (CHOOSE e \in {m[n] : n \in 1..Len(m)} : e.key = k).value
                    ELSE Undefined

\* Map.prototype.delete: the other entries keep their order
MapDelete(m, k) == SelectSeq(m, LAMBDA e : e.key # k)

\* Map.prototype.set: a stored key keeps its place, a new one goes last
MapSet(m, k, v) ==
    IF MapHas(m, k)
    THEN [n \in 1..Len(m) |-> IF m[n].key = k THEN [key |-> k, value |-> v] ELSE m[n]]
    ELSE Append(m, [key |-> k, value |-> v])

\* line 60: this.cache.keys().next().value
FirstKey(m) == IF Len(m) = 0 THEN Undefined ELSE m[1].key

\* lines 108-111: keys()
LRUKeys == [n \in 1..Len(cache) |-> cache[n].key]

\* lines 117-120: values()
LRUValues == [n \in 1..Len(cache) |-> cache[n].value]

\* lines 99-102: size
LRUSize == Len(cache)

\* the keys by last use with k used now
Used(r, k) == Append(SelectSeq(r, LAMBDA x : x # k), k)

Call(op, k, result, evicted) ==
    [op |-> op, key |-> k, result |-> result, evicted |-> evicted]

\* lines 11-19: new LRUCache(capacity)
CacheInit ==
    /\ NoSingle
    /\ NoChain
    /\ NoPair
    /\ NoManager
    /\ NoEmitter
    /\ NoRetry
    /\ NoMachine
    /\ NoPipeline
    /\ capacity \in 0..MaxCapacity
    /\ cache = <<>>
    /\ recent = <<>>
    /\ lastCall = Call("new", Undefined, Undefined, Undefined)

\* get(key) returning the value without moving the key
GetInPlace(k) ==
    /\ cache' = cache
    /\ recent' = IF MapHas(cache, k) THEN Used(recent, k) ELSE recent
    /\ lastCall' = Call("get", k, MapGet(cache, k), Undefined)
    /\ UNCHANGED <<besideCache, capacity>>

\* lines 26-45: get(key)
Get(k) ==
    /\ IF ~MapHas(cache, k)
       THEN /\ cache' = cache
            /\ recent' = recent
       ELSE /\ cache' = MapSet(MapDelete(cache, k), k, MapGet(cache, k))
            /\ recent' = Used(recent, k)
    /\ lastCall' = Call("get", k, MapGet(cache, k), Undefined)
    /\ UNCHANGED <<besideCache, capacity>>

\* lines 55-57: the Map of put once the key, if stored, is deleted
Removed(k) == IF MapHas(cache, k) THEN MapDelete(cache, k) ELSE cache

\* lines 59-62: the key put evicts, or `undefined`
Evicted(k) ==
    IF Len(Removed(k)) >= capacity THEN FirstKey(Removed(k)) ELSE Undefined

\* lines 52-65: put(key, value)
Put(k, v) ==
    /\ cache' = MapSet(IF Len(Removed(k)) >= capacity
                       THEN MapDelete(Removed(k), FirstKey(Removed(k)))
                       ELSE Removed(k), k, v)
    /\ recent' = Used(SelectSeq(recent, LAMBDA x : x # Evicted(k)), k)
    /\ lastCall' = Call("put", k, Undefined, Evicted(k))
    /\ UNCHANGED <<besideCache, capacity>>

\* lines 72-75: has(key)
Has(k) ==
    /\ lastCall' = Call("has", k, MapHas(cache, k), Undefined)
    /\ UNCHANGED <<besideCache, capacity, cache, recent>>

\* lines 82-85: delete(key)
Delete(k) ==
    /\ cache' = MapDelete(cache, k)
    /\ recent' = SelectSeq(recent, LAMBDA x : x # k)
    /\ lastCall' = Call("delete", k, MapHas(cache, k), Undefined)
    /\ UNCHANGED <<besideCache, capacity>>

\* lines 90-93: clear()
Clear ==
    /\ cache' = <<>>
    /\ recent' = <<>>
    /\ lastCall' = Call("clear", Undefined, Undefined, Undefined)
    /\ UNCHANGED <<besideCache, capacity>>

CacheStep ==
    \/ \E k \in Keys : Get(k)
    \/ \E k \in Keys, v \in CacheValues : Put(k, v)
    \/ \E k \in Keys : Has(k)
    \/ \E k \in Keys : Delete(k)
    \/ Clear

SpecCache == CacheInit /\ [][CacheStep]_vars

\* ------------------------------------------------------------- properties of the cache
\* C25 (as stated): the number of stored items never exceeds the capacity,
\* for every capacity c >= 0.
C25_SizeWithinCapacity == LRUSize <= capacity

\* C25 (what does hold): with a capacity of at least one the number of
\* stored items never exceeds it.
C25_SizeWithinPositiveCapacity == capacity >= 1 => LRUSize <= capacity

\* put(k, v) is the step taken, on a new key, with the cache full of keys
PutNewWhenFull(k) ==
    /\ lastCall'.op = "put"
    /\ lastCall'.key = k
    /\ cache' # cache
    /\ ~MapHas(cache, k)
    /\ LRUSize >= capacity
    /\ LRUSize > 0

\* the keys() of the cache before and after the step
KeysBefore == LRUKeys
KeysAfter == [n \in 1..Len(cache') |-> cache'[n].key]

\* C26: a put of a new key into a full cache evicts the least recently used
\* key (by get hits and puts; has does not count) and nothing else, and
\* keys() always lists the stored keys from least to most recently used.
C26_EvictsLeastRecentlyUsed ==
    [][/\ \A k \in Keys : PutNewWhenFull(k) =>
            /\ lastCall'.evicted = recent[1]
            /\ KeysAfter = Append(Tail(recent), k)
       /\ lastCall'.op = "has" => KeysAfter = KeysBefore
       /\ KeysAfter = recent']_vars

\* a full cache whose least recently used key is not the first one put,
\* because a get refreshed that one, has just evicted on a put
C26_Witness ==
    /\ lastCall.op = "put"
    /\ lastCall.evicted # Undefined
    /\ LRUSize = capacity
    /\ capacity = MaxCapacity
    /\ LRUKeys = recent
    /\ lastCall.evicted > LRUKeys[1]

\* ------------------------------------------------------------- CommandManager
\* manager calls in a run, and command objects constructed in one
MaxOps == 4
MaxCommands == 2

besideManager == <<single, chain, lru, pair, emitter, retrying, machine, pipeline>>

\* previousValue: `null`, or the value kept
Null == <<>>
Kept(v) == <<v>>

\* the commands constructed: Add, Subtract, Multiply and SetValue with a
\* value, and a DivideCommand by zero, whose execute throws (line 465)
Kinds == {"Add", "Subtract", "Multiply", "SetValue"}
NewCommands ==
    {[kind |-> k, value |-> v, previousValue |-> Null] : k \in Kinds, v \in 1..MaxVal}
        \cup {[kind |-> "Divide", value |-> 0, previousValue |-> Null]}

\* lines 464-466: execute() of the command throws
Throws(c) == c.kind = "Divide" /\ c.value = 0

\* the command object after its execute(): lines 437, 534
Executed(c, v) ==
    IF c.kind \in {"Multiply", "SetValue"} THEN [c EXCEPT !.previousValue = Kept(v)] ELSE c

\* calculator.value after execute() of c: lines 391, 413, 438, 535
ExecuteValue(c, v) ==
    CASE c.kind = "Add" -> v + c.value
      [] c.kind = "Subtract" -> v - c.value
      [] c.kind = "Multiply" -> v * c.value
      [] c.kind = "SetValue" -> c.value

\* calculator.value after undo() of c: lines 396, 418, 443-445, 540-542
UndoValue(c, v) ==
    CASE c.kind = "Add" -> v - c.value
      [] c.kind = "Subtract" -> v + c.value
      [] c.kind \in {"Multiply", "SetValue"} ->
            IF c.previousValue # Null THEN c.previousValue[1] ELSE v

\* lines 354-357
canRedo == Len(redoStack) > 0

\* lines 345-348
canUndo == Len(undoStack) > 0

\* the command on top of a stack, and the stack after pop()
Peek(s) == s[Len(s)]
Pop(s) == SubSeq(s, 1, Len(s) - 1)

\* a call of the manager and the state it left
Entry(op, result, v, undo, redo) ==
    [op |-> op, result |-> result, value |-> v, undoStack |-> undo, redoStack |-> redo]

\* lines 269-273, and a calculator with some value
ManagerInit ==
    /\ NoSingle
    /\ NoChain
    /\ NoCache
    /\ NoPair
    /\ NoEmitter
    /\ NoRetry
    /\ NoMachine
    /\ NoPipeline
    /\ calculator \in 1..MaxVal
    /\ undoStack = <<>>
    /\ redoStack = <<>>
    /\ commands = <<>>
    /\ journal = <<Entry("new", "returned", calculator, <<>>, <<>>)>>

\* execute(command) keeping the redo stack
ExecuteKeepsRedo(id, made) ==
    IF Throws(made[id])
    THEN /\ commands' = made
         /\ journal' = Append(journal, Entry("execute", "thrown", calculator,
                                             undoStack, redoStack))
         /\ UNCHANGED <<calculator, undoStack, redoStack>>
    ELSE /\ calculator' = ExecuteValue(made[id], calculator)
         /\ commands' = [made EXCEPT ![id] = Executed(@, calculator)]
         /\ undoStack' = Append(undoStack, id)
         /\ redoStack' = redoStack
         /\ journal' = Append(journal, Entry("execute", "returned", calculator', undoStack',
                                             redoStack'))

\* lines 279-289: execute(command), the command being the object id
Execute(id, made) ==
    IF Throws(made[id])
    THEN /\ commands' = made
         /\ journal' = Append(journal, Entry("execute", "thrown", calculator,
                                             undoStack, redoStack))
         /\ UNCHANGED <<calculator, undoStack, redoStack>>
    ELSE /\ calculator' = ExecuteValue(made[id], calculator)
         /\ commands' = [made EXCEPT ![id] = Executed(@, calculator)]
         /\ undoStack' = Append(undoStack, id)
         /\ redoStack' = <<>>
         /\ journal' = Append(journal, Entry("execute", "returned", calculator', undoStack',
                                             redoStack'))

\* execute(new XCommand(calculator, value))
ExecuteNew ==
    /\ Len(journal) <= MaxOps
    /\ Len(commands) < MaxCommands
    /\ \E c \in NewCommands : Execute(Len(commands) + 1, Append(commands, c))
    /\ UNCHANGED besideManager

\* execute(command) with a command object executed before
ExecuteAgain ==
    /\ Len(journal) <= MaxOps
    /\ \E id \in 1..Len(commands) : Execute(id, commands)
    /\ UNCHANGED besideManager

\* lines 295-314: undo()
Undo ==
    /\ Len(journal) <= MaxOps
    /\ IF Len(undoStack) = 0
       THEN /\ journal' = Append(journal, Entry("undo", "false", calculator, undoStack,
                                                redoStack))
            /\ UNCHANGED <<calculator, undoStack, redoStack>>
       ELSE /\ undoStack' = Pop(undoStack)
            /\ calculator' = UndoValue(commands[Peek(undoStack)], calculator)
            /\ redoStack' = Append(redoStack, Peek(undoStack))
            /\ journal' = Append(journal, Entry("undo", "true", calculator', undoStack',
                                                redoStack'))
    /\ UNCHANGED <<besideManager, commands>>

\* lines 320-339: redo()
Redo ==
    /\ Len(journal) <= MaxOps
    /\ IF Len(redoStack) = 0
       THEN /\ journal' = Append(journal, Entry("redo", "false", calculator, undoStack,
                                                redoStack))
            /\ UNCHANGED <<calculator, undoStack, redoStack, commands>>
       ELSE /\ redoStack' = Pop(redoStack)
            /\ calculator' = ExecuteValue(commands[Peek(redoStack)], calculator)
            /\ commands' = [commands EXCEPT ![Peek(redoStack)] = Executed(@, calculator)]
            /\ undoStack' = Append(undoStack, Peek(redoStack))
            /\ journal' = Append(journal, Entry("redo", "true", calculator', undoStack',
                                                redoStack'))
    /\ UNCHANGED besideManager

\* lines 371-375: clear()
ManagerClear ==
    /\ Len(journal) <= MaxOps
    /\ undoStack' = <<>>
    /\ redoStack' = <<>>
    /\ journal' = Append(journal, Entry("clear", "returned", calculator, <<>>, <<>>))
    /\ UNCHANGED <<besideManager, calculator, commands>>

ManagerStep ==
    \/ ExecuteNew
    \/ ExecuteAgain
    \/ Undo
    \/ Redo
    \/ ManagerClear

SpecManager == ManagerInit /\ [][ManagerStep]_vars

\* ------------------------------------------------------------- properties of the manager
\* the last call of the manager, and the call a step makes
LastEntry == journal[Len(journal)]
Made(op) == Len(journal') = Len(journal) + 1 /\ journal'[Len(journal')].op = op
Returned(result) == journal'[Len(journal')].result = result

\* C27: after an execute(command) that returns the redo stack is empty and
\* canRedo() is false, whatever came before; undo() on an empty undo stack
\* and redo() on an empty redo stack return false and change nothing.
C27_ExecuteClearsRedo ==
    [][/\ (Made("execute") /\ Returned("returned")) =>
            redoStack' = <<>> /\ ~canRedo'
       /\ (Made("undo") /\ ~canUndo) =>
            Returned("false") /\ UNCHANGED <<calculator, undoStack, redoStack, commands>>
       /\ (Made("redo") /\ ~canRedo) =>
            Returned("false") /\ UNCHANGED <<calculator, undoStack, redoStack, commands>>]_vars

\* an undo() on the empty stack returned false, and later an execute
\* returned that found a command on the redo stack
C27_Witness ==
    /\ Len(journal) >= 3
    /\ LastEntry.op = "execute"
    /\ LastEntry.result = "returned"
    /\ journal[Len(journal) - 1].redoStack # <<>>
    /\ redoStack = <<>>
    /\ \E n \in 1..Len(journal) : journal[n].op = "undo" /\ journal[n].result = "false"

\* the n-th call was a redo() that followed an undo(), both returning true
RoundTrip(n) ==
    /\ n >= 3
    /\ journal[n].op = "redo" /\ journal[n].result = "true"
    /\ journal[n - 1].op = "undo" /\ journal[n - 1].result = "true"

\* undo() then redo() left the undo stack and the value as they were
Restored(n) ==
    /\ journal[n].undoStack = journal[n - 2].undoStack
    /\ journal[n].value = journal[n - 2].value

\* the calls so far are n executes that returned and then n undos
ExecutesThenUndos(n) ==
    /\ Len(journal) = 2 * n + 1
    /\ \A m \in 2..(n + 1) : journal[m].op = "execute" /\ journal[m].result = "returned"
    /\ \A m \in (n + 2)..(2 * n + 1) : journal[m].op = "undo" /\ journal[m].result = "true"

\* C28 (as stated): from any state reached by execute/undo/redo, undo()
\* followed by redo() restores the undo stack and the calculator value,
\* and n undos after n executes restore the initial calculator value.
C28_UndoRedoRoundTrip ==
    /\ \A n \in 1..Len(journal) : RoundTrip(n) => Restored(n)
    /\ \A n \in 1..MaxOps : ExecutesThenUndos(n) => calculator = journal[1].value

\* no command object was on the stacks twice at any time
Distinct(s) == \A m, n \in 1..Len(s) : m # n => s[m] # s[n]
EachOnce == \A n \in 1..Len(journal) : Distinct(journal[n].undoStack \o journal[n].redoStack)

\* C28 (what does hold): the round trips restore the undo stack and the
\* value as long as no command object is on the stacks twice.
C28_RoundTripOfDistinctCommands ==
    EachOnce =>
        /\ \A n \in 1..Len(journal) : RoundTrip(n) => Restored(n)
        /\ \A n \in 1..MaxOps : ExecutesThenUndos(n) => calculator = journal[1].value

\* ------------------------------------------------------------- EventEmitter
\* emit calls in a run, and listeners registered at a time
MaxEmits == 3
MaxListeners == 3

besideEmitter == <<single, chain, lru, pair, manager, retrying, machine, pipeline>>

\* a listener registered with on, the wrapper made by once (line 118) and
\* the listener it wraps
Plain == "plain"
Wrapper == "wrapper"
OnceListener == "listener"

\* lines 7-10: new EventEmitter()
EmitterInit ==
    /\ NoSingle
    /\ NoChain
    /\ NoCache
    /\ NoPair
    /\ NoManager
    /\ NoRetry
    /\ NoMachine
    /\ NoPipeline
    /\ events = <<>>
    /\ emitStack = <<>>
    /\ invoked = 0
    /\ registered = FALSE
    /\ emits = 0
    /\ reentered = FALSE
    /\ caught = FALSE

EmitFrame(fn, id, copy, idx) == [fn |-> fn, id |-> id, copy |-> copy, idx |-> idx]
Active == emitStack[Len(emitStack)]
Emitting == Len(emitStack) > 0 /\ Active.fn = "emit"
Listening == Len(emitStack) > 0 /\ Active.fn = "listener"

\* lines 52-58: the listeners left by off(event, l); the wrapper matches
\* the listener it wraps through wrapper.listener (lines 55, 124)
Without(ls, l) ==
    SelectSeq(ls, LAMBDA x : ~(x = l \/ (x = Wrapper /\ l = OnceListener)))

\* lines 18-32: on(event, listener)
On ==
    /\ emitStack = <<>>
    /\ Len(events) < MaxListeners
    /\ events' = Append(events, Plain)
    /\ UNCHANGED <<besideEmitter, emitStack, invoked, registered, emits, reentered, caught>>

\* lines 112-131: once(event, listener)
Once ==
    /\ emitStack = <<>>
    /\ ~registered
    /\ Len(events) < MaxListeners
    /\ events' = Append(events, Wrapper)
    /\ registered' = TRUE
    /\ UNCHANGED <<besideEmitter, emitStack, invoked, emits, reentered, caught>>

\* lines 40-66: off(event, listener)
Off ==
    /\ emitStack = <<>>
    /\ \E l \in {Plain, OnceListener} :
        /\ Without(events, l) # events
        /\ events' = Without(events, l)
    /\ UNCHANGED <<besideEmitter, emitStack, invoked, registered, emits, reentered, caught>>

\* lines 138-148: removeAllListeners(event)
RemoveAllListeners ==
    /\ emitStack = <<>>
    /\ events # <<>>
    /\ events' = <<>>
    /\ UNCHANGED <<besideEmitter, emitStack, invoked, registered, emits, reentered, caught>>

\* lines 74-87: emit(event) called by a task or from inside a listener;
\* without listeners it returns false, else it copies the array
EmitCall ==
    /\ emitStack = <<>> \/ Listening
    /\ emits < MaxEmits
    /\ emits' = emits + 1
    /\ reentered' = (reentered \/ emitStack # <<>>)
    /\ emitStack' = IF Len(events) = 0 THEN emitStack
                    ELSE Append(emitStack, EmitFrame("emit", "none", events, 1))
    /\ UNCHANGED <<besideEmitter, events, invoked, registered, caught>>

\* lines 89-93: the next listener of the copy is called; lines 118-121:
\* the wrapper removes itself and calls the listener it wraps
Invoke ==
    /\ Emitting
    /\ Active.idx <= Len(Active.copy)
    /\ LET l == Active.copy[Active.idx]
           next == [emitStack EXCEPT ![Len(emitStack)].idx = @ + 1]
       IN  IF l = Wrapper
           THEN /\ events' = Without(events, Wrapper)
                /\ invoked' = invoked + 1
                /\ emitStack' = Append(next, EmitFrame("listener", OnceListener, <<>>, 0))
           ELSE /\ emitStack' = Append(next, EmitFrame("listener", l, <<>>, 0))
                /\ UNCHANGED <<events, invoked>>
    /\ UNCHANGED <<besideEmitter, registered, emits, reentered, caught>>

\* lines 89, 103: the copy is exhausted, emit returns true
EmitReturn ==
    /\ Emitting
    /\ Active.idx > Len(Active.copy)
    /\ emitStack' = SubSeq(emitStack, 1, Len(emitStack) - 1)
    /\ UNCHANGED <<besideEmitter, events, invoked, registered, emits, reentered, caught>>

\* a listener returns
ListenerReturn ==
    /\ Listening
    /\ emitStack' = SubSeq(emitStack, 1, Len(emitStack) - 1)
    /\ UNCHANGED <<besideEmitter, events, invoked, registered, emits, reentered, caught>>

\* lines 95-99: a listener throws; emit catches it and, with no listener
\* of 'error' registered, goes on
ListenerThrow ==
    /\ Listening
    /\ emitStack' = SubSeq(emitStack, 1, Len(emitStack) - 1)
    /\ caught' = TRUE
    /\ UNCHANGED <<besideEmitter, events, invoked, registered, emits, reentered>>

EmitterStep ==
    \/ On
    \/ Once
    \/ Off
    \/ RemoveAllListeners
    \/ EmitCall
    \/ Invoke
    \/ EmitReturn
    \/ ListenerReturn
    \/ ListenerThrow

SpecEmitter == EmitterInit /\ [][EmitterStep]_vars

\* ------------------------------------------------------------- properties of the emitter
\* C29 (as stated): a listener registered with once is invoked at most
\* once over any sequence of emit calls, reentrant ones included.
C29_OnceListenerAtMostOnce == invoked <= 1

\* C29 (what does hold): without an emit made from inside a listener the
\* listener registered with once is invoked at most once.
C29_AtMostOnceWithoutReentry == ~reentered => invoked <= 1

\* ------------------------------------------------------------- retry
\* the largest options.maxRetries, and the largest delay among the options
MaxRetries == 2
MaxDelay == 5

besideRetry == <<single, chain, lru, pair, manager, emitter, machine, pipeline>>

Strategies == {"fixed", "linear", "exponential"}

\* the options a call is made with; maxRetries below zero leaves the loop
\* of line 504 without an attempt
RetryOptions ==
    [maxRetries : -1..MaxRetries, initialDelay : 1..MaxDelay, maxDelay : 1..MaxDelay,
     backoff : Strategies, jitter : BOOLEAN]

\* what retryIf and onRetry throw when they throw; the error of attempt k
\* is k, and so is the value attempt k resolves with
RetryIfError == -1
OnRetryError == -2

Outcome(how, with) == [how |-> how, with |-> with]

\* lines 486-504: retry(fn, options) is called
RetryInit ==
    /\ NoSingle
    /\ NoChain
    /\ NoCache
    /\ NoPair
    /\ NoManager
    /\ NoEmitter
    /\ NoMachine
    /\ NoPipeline
    /\ options \in RetryOptions
    /\ attempt = 1
    /\ lastError = Undefined
    /\ at = "loop"
    /\ settled = Outcome("none", Undefined)
    /\ trace = <<>>
    /\ waited = <<>>

RECURSIVE Pow2(_)
\* Math.pow(2, n)
Pow2(n) == IF n = 0 THEN 1 ELSE 2 * Pow2(n - 1)

\* lines 556-572: calculateDelay(strategy, attempt, initialDelay)
calculateDelay(strategy, n, initialDelay) ==
    CASE strategy = "fixed" -> initialDelay
      [] strategy = "linear" -> initialDelay * n
      [] OTHER -> initialDelay * Pow2(n - 1)

\* line 522: Math.min
MathMin(a, b) == IF a <= b THEN a ELSE b

\* lines 580-585: applyJitter(delay) adds a random part below a quarter of
\* the delay; the outcomes in whole milliseconds
applyJitter(delay) == {delay + j : j \in 0..((delay - 1) \div 4)}

\* lines 520-526: the delays the call may sleep before the next attempt
Delays ==
    LET capped == MathMin(calculateDelay(options.backoff, attempt, options.initialDelay),
                          options.maxDelay)
    IN  IF options.jitter THEN applyJitter(capped) ELSE {capped}

\* lines 504-506: the loop condition holds and fn is called
CallFn ==
    /\ at = "loop"
    /\ attempt <= options.maxRetries + 1
    /\ trace' = Append(trace, "fn")
    /\ at' = "fn"
    /\ UNCHANGED <<besideRetry, options, attempt, lastError, settled, waited>>

\* lines 504, 545: the loop condition fails, `throw lastError`
LoopEnds ==
    /\ at = "loop"
    /\ attempt > options.maxRetries + 1
    /\ settled' = Outcome("rejected", lastError)
    /\ at' = "done"
    /\ UNCHANGED <<besideRetry, options, attempt, lastError, trace, waited>>

\* lines 506-507: the promise of fn resolves and retry returns its value
FnResolves ==
    /\ at = "fn"
    /\ settled' = Outcome("resolved", attempt)
    /\ at' = "done"
    /\ UNCHANGED <<besideRetry, options, attempt, lastError, trace, waited>>

\* lines 506-510: fn throws or its promise rejects
FnRejects ==
    /\ at = "fn"
    /\ lastError' = attempt
    /\ at' = "catch"
    /\ UNCHANGED <<besideRetry, options, attempt, settled, trace, waited>>

\* lines 512-516: no retry is left; retryIf is not called
GiveUp ==
    /\ at = "catch"
    /\ ~(attempt <= options.maxRetries)
    /\ settled' = Outcome("rejected", lastError)
    /\ at' = "done"
    /\ UNCHANGED <<besideRetry, options, attempt, lastError, trace, waited>>

\* lines 512-514: retryIf(error) returns true
RetryIfTrue ==
    /\ at = "catch"
    /\ attempt <= options.maxRetries
    /\ trace' = Append(trace, "retryIf:true")
    /\ at' = "onRetry"
    /\ UNCHANGED <<besideRetry, options, attempt, lastError, settled, waited>>

\* retryIf(error) returning false and the call going on all the same
RetryIfFalseIgnored ==
    /\ at = "catch"
    /\ attempt <= options.maxRetries
    /\ trace' = Append(trace, "retryIf:false")
    /\ at' = "onRetry"
    /\ UNCHANGED <<besideRetry, options, attempt, lastError, settled, waited>>

\* lines 512-516: retryIf(error) returns false, `throw error`
RetryIfFalse ==
    /\ at = "catch"
    /\ attempt <= options.maxRetries
    /\ trace' = Append(trace, "retryIf:false")
    /\ settled' = Outcome("rejected", lastError)
    /\ at' = "done"
    /\ UNCHANGED <<besideRetry, options, attempt, lastError, waited>>

\* line 512: retryIf(error) throws, out of the catch block
RetryIfThrows ==
    /\ at = "catch"
    /\ attempt <= options.maxRetries
    /\ trace' = Append(trace, "retryIf:throw")
    /\ settled' = Outcome("rejected", RetryIfError)
    /\ at' = "done"
    /\ UNCHANGED <<besideRetry, options, attempt, lastError, waited>>

\* line 518: onRetry(error, attempt) returns
OnRetryReturns ==
    /\ at = "onRetry"
    /\ trace' = Append(trace, "onRetry")
    /\ at' = "delay"
    /\ UNCHANGED <<besideRetry, options, attempt, lastError, settled, waited>>

\* line 518: onRetry(error, attempt) throws, out of the catch block
OnRetryThrows ==
    /\ at = "onRetry"
    /\ trace' = Append(trace, "onRetry:throw")
    /\ settled' = Outcome("rejected", OnRetryError)
    /\ at' = "done"
    /\ UNCHANGED <<besideRetry, options, attempt, lastError, waited>>

\* lines 520-527 and 504: the delay is computed and slept, attempt++
Sleep ==
    /\ at = "delay"
    /\ \E delay \in Delays : waited' = Append(waited, delay)
    /\ attempt' = attempt + 1
    /\ at' = "loop"
    /\ UNCHANGED <<besideRetry, options, lastError, settled, trace>>

RetryStep ==
    \/ CallFn
    \/ LoopEnds
    \/ FnResolves
    \/ FnRejects
    \/ GiveUp
    \/ RetryIfTrue
    \/ RetryIfFalse
    \/ RetryIfThrows
    \/ OnRetryReturns
    \/ OnRetryThrows
    \/ Sleep

SpecRetry == RetryInit /\ [][RetryStep]_vars

\* ------------------------------------------------------------- properties of retry
\* the positions of the trace where fn was called, and how many
FnCallsAt == {p \in 1..Len(trace) : trace[p] = "fn"}
FnCalls == Cardinality(FnCallsAt)

\* the calls of onRetry strictly between positions p and q of the trace
OnRetryBetween(p, q) ==
    Cardinality({r \in (p + 1)..(q - 1) : trace[r] \in {"onRetry", "onRetry:throw"}})

\* C30: retry invokes fn at most maxRetries + 1 times; it never invokes it
\* again after an attempt succeeded or retryIf returned false, and then
\* settles with the value of the first success or rejects with the error
\* of the last attempt (as it does when the retries are used up); onRetry
\* is called exactly once between an attempt and the next one.
C30_RetryAttempts ==
    /\ FnCalls <= options.maxRetries + 1
    /\ settled.how = "resolved" =>
            /\ trace[Len(trace)] = "fn"
            /\ settled.with = FnCalls
            /\ at = "done"
    /\ \A p \in 1..Len(trace) : trace[p] = "retryIf:false" =>
            /\ p = Len(trace)
            /\ at = "done"
            /\ settled = Outcome("rejected", FnCalls)
    /\ (settled.how = "rejected" /\ FnCalls >= 1 /\ trace[Len(trace)] = "fn") =>
            settled.with = FnCalls
    /\ \A p, q \in FnCallsAt :
            (p < q /\ ~\E r \in FnCallsAt : p < r /\ r < q) => OnRetryBetween(p, q) = 1
    /\ at = "done" => settled.how # "none"

\* the second attempt failed with retries left, retryIf returned false
\* and retry rejected with the second attempt's error
C30_Witness ==
    /\ FnCalls = 2
    /\ options.maxRetries = MaxRetries
    /\ trace[Len(trace)] = "retryIf:false"
    /\ settled = Outcome("rejected", 2)

\* ------------------------------------------------------------- properties of two calls
\* the Observer of call i threw in its next callback
NextFault(i) == [sub |-> i, callback |-> "next"] \in pairFaults

\* the error callback of call j was handed the TypeError of line 49
GotTypeError(j) ==
    \E k \in 1..Len(pairLog[j]) : pairLog[j][k] = <<"error", TypeError>>

\* C23 (as stated): two subscriptions to one Observable are independent; a
\* consumer fault on one never sets the terminal flag of the other and
\* never invokes a callback of the other's Observer.  The TypeError of
\* line 49 exists only where an Observer's next threw, so a call whose
\* own Observer never threw is never terminated with it.
C23_SubscriptionsIndependent ==
    \A i, j \in Ids :
        (i # j /\ NextFault(i) /\ ~NextFault(j)) =>
            ~(closures[j].isStopped /\ GotTypeError(j))

\* C23 (what does hold): a step of the library running for one call
\* leaves the other call's flag, cleanup action, callbacks and cleanup
\* count as they were.
C23_LibraryStepsAreLocal ==
    [][\A j \in Ids :
        (Len(pairStack) > 0 /\ Inner.fn \in LibraryFns /\ Inner.sub # j) =>
            /\ closures'[j] = closures[j]
            /\ pairLog'[j] = pairLog[j]
            /\ pairCleanups'[j] = pairCleanups[j]]_vars

\* ------------------------------------------------------------- properties of chains
Quiet == frames = <<>>
Subscribed == subs["down"].state # "none"
FaultsAt(sites) == {f \in chainFaults : f.site \in sites}

\* the producer signals no error and throws none, the consumer's Observer
\* throws none
WellBehaved == FaultsAt({"source", "observer"}) = {}

\* the consumer has not called unsubscribe()
ConsumerStays == unsubscribes["down"] = 0

RECURSIVE NextValues(_)
NextValues(calls_) ==
    IF calls_ = <<>> THEN <<>>
    ELSE IF Head(calls_)[1] = "next" THEN <<Head(calls_)[2]>> \o NextValues(Tail(calls_))
    ELSE NextValues(Tail(calls_))

DeliveredTerminals == {i \in 1..Len(delivered) : IsTerminal(delivered[i])}
DeliveredErrors == {i \in 1..Len(delivered) : delivered[i][1] = "error"}
Completed == \E i \in 1..Len(delivered) : delivered[i][1] = "complete"
IsPrefix(s, t) == Len(s) <= Len(t) /\ s = SubSeq(t, 1, Len(s))
Min(a, b) == IF a <= b THEN a ELSE b
First(n, s) == SubSeq(s, 1, Min(IF n < 0 THEN 0 ELSE n, Len(s)))

\* C11: for every N and every upstream that does not itself signal error,
\* take(N) delivers at most N values to a non-throwing Observer, the first
\* min(N, emitted) upstream values in order; it delivers no error and at most
\* one complete, after which nothing; and once N values were emitted or the
\* upstream has stopped, an Observer that has not unsubscribed has got
\* exactly those values and its one complete.
C11_TakeDeliversFirstN ==
    (operator.op = "take" /\ operator.count >= 0 /\ WellBehaved) =>
        /\ IsPrefix(NextValues(delivered), First(operator.count, relayed))
        /\ DeliveredErrors = {}
        /\ DeliveredTerminals \subseteq {Len(delivered)}
        /\ (Quiet /\ Subscribed /\ ConsumerStays) =>
            /\ NextValues(delivered) = First(operator.count, relayed)
            /\ consumer.complete =>
                (Completed <=> (Len(relayed) >= operator.count \/ subs["up"].isStopped))

\* take(2) over a deferred producer: two values, complete, and the producer
\* unsubscribed by the cleanup action and by line 213
C11_Witness ==
    /\ operator.op = "take" /\ operator.count = 2
    /\ WellBehaved /\ Quiet /\ ConsumerStays
    /\ Len(delivered) = 3 /\ delivered[3] = <<"complete", 0>>
    /\ NextValues(delivered) = relayed
    /\ unsubscribes["up"] = 2

\* C12: for count <= 0, subscribing to take(count) never invokes the
\* upstream's subscribe-procedure and delivers no next; when subscribe
\* returns, the Observer has had its complete and nothing else.
C12_TakeNothingCompletesAtOnce ==
    (operator.op = "take" /\ operator.count <= 0) =>
        /\ sourceRuns = 0
        /\ subs["up"].state = "none"
        /\ relayed = <<>>
        /\ NextValues(delivered) = <<>>
        /\ DeliveredErrors = {}
        /\ subs["down"].state = "returned" =>
            /\ subs["down"].isStopped
            /\ delivered = IF consumer.complete THEN <<<<"complete", 0>>>> ELSE <<>>

C12_Witness ==
    /\ operator.op = "take" /\ operator.count = 0
    /\ source.kind = "from" /\ Len(source.array) = MaxLen
    /\ subs["down"].state = "returned"
    /\ delivered = <<<<"complete", 0>>>>
    /\ sourceRuns = 0

\* C13: subscribing to take(2) over a producer that emits synchronously
\* without end terminates: the Observer gets exactly 2 next calls followed by
\* complete, the producer's loop is stopped, and the upstream cleanup action
\* has fired.
C13_EndlessTakeTerminates ==
    (/\ operator.op = "take" /\ operator.count = 2
     /\ source.kind = "endless"
     /\ WellBehaved /\ ConsumerStays
     /\ Quiet /\ Subscribed) =>
        /\ NextValues(delivered) = <<EndlessValue(0), EndlessValue(1)>>
        /\ DeliveredErrors = {}
        /\ consumer.complete => delivered[Len(delivered)] = <<"complete", 0>>
        /\ emitted = 2
        /\ sourceCleanups >= 1

\* what the code does instead: the loop is ended by the exception of line
\* 213, the procedure never returns a cleanup action and none runs
C13_EndlessTakeObserved ==
    (/\ operator.op = "take" /\ operator.count = 2
     /\ source.kind = "endless"
     /\ WellBehaved /\ ConsumerStays
     /\ Quiet /\ Subscribed) =>
        /\ NextValues(delivered) = <<EndlessValue(0), EndlessValue(1)>>
        /\ DeliveredErrors = {}
        /\ consumer.complete => delivered[Len(delivered)] = <<"complete", 0>>
        /\ emitted = 2
        /\ sourceCleanups = 0
        /\ ~subs["up"].unsubscribeFn
        /\ \E f \in chainFaults : f.site = "next" /\ f.sub = "up" /\ f.err = ReferenceError

\* the source's procedure hands back a cleanup action
HasCleanup ==
    \/ source.kind \in {"from", "endless"}
    \/ subs["up"].unsubscribeFn
    \/ sourceCleanups >= 1

\* the count-th value has been forwarded and the step that forwarded it is
\* over
CountReached ==
    /\ operator.op = "take" /\ operator.count >= 1
    /\ taken >= operator.count
    /\ WellBehaved
    /\ Quiet

UpstreamToldToStop ==
    /\ subs["up"].isStopped
    /\ HasCleanup => sourceCleanups = 1
    /\ Len(relayed) = operator.count

\* C14: in take(count) with count >= 1, once the step that forwarded the
\* count-th value is over, the upstream subscription is stopped, the upstream
\* cleanup action has run exactly once, and no later upstream emission has
\* reached the relay.
C14_UpstreamUnsubscribedAtCount == CountReached => UpstreamToldToStop

\* line 213 does this when `subscription` is initialised, that is when the
\* count-th value is emitted after this.subscribe(...) has returned
C14_UnsubscribedWhenDeferred ==
    (CountReached /\ ~\E f \in chainFaults : f.err = ReferenceError) => UpstreamToldToStop

\* take's relay has forwarded the count-th value and is calling downstream
\* complete (line 212)
CompletingAtCount ==
    /\ Len(frames) >= 2
    /\ Current = Downstream("complete", 0)
    /\ frames[Len(frames) - 1].fn = "relay"
    /\ frames[Len(frames) - 1].pc = "completed"

\* the Observer's complete callback is running for that call
CompleteCallbackAtCount ==
    /\ At("observer", "complete")
    /\ operator.op = "take"
    /\ taken >= operator.count
    /\ ConsumerStays

\* take's relay is about to call subscription.unsubscribe() (line 213)
UnsubscribingAtCount == At("relay", "completed") /\ thrown = NoExc

\* C15 as stated: when the count-th value has been forwarded, unsubscribe on
\* the upstream subscription has been called by the time downstream complete
\* is called, and the upstream cleanup has run by the time the Observer's
\* complete callback is invoked.
C15_UnsubscribeBeforeComplete ==
    /\ (CompletingAtCount /\ ConsumerStays) => unsubscribes["up"] >= 1
    /\ (CompleteCallbackAtCount /\ HasCleanup) => sourceCleanups >= 1

\* C15 amended: downstream complete is called first (line 212), unsubscribe
\* on the upstream subscription after it (line 213): when the relay reaches
\* the unsubscribe the downstream is stopped and the Observer has had its
\* complete, and the upstream cleanup never runs before that complete
\* callback was invoked.
C15_CompleteBeforeUnsubscribe ==
    /\ (CompletingAtCount /\ ConsumerStays) =>
        unsubscribes["up"] = 0 /\ sourceCleanups = 0
    /\ UnsubscribingAtCount =>
        /\ subs["down"].isStopped
        /\ (ConsumerStays /\ consumer.complete) => Completed
    /\ (/\ operator.op = "take" /\ operator.count >= 1
        /\ taken >= operator.count
        /\ ConsumerStays /\ consumer.complete
        /\ sourceCleanups >= 1) => Completed

\* a deferred producer emitted the count-th value: the Observer's complete
\* callback and then the source's cleanup have run, line 213 comes next
C15_Witness ==
    /\ UnsubscribingAtCount
    /\ SubscriptionInitialised
    /\ ConsumerStays
    /\ delivered[Len(delivered)] = <<"complete", 0>>
    /\ sourceCleanups = 1
    /\ unsubscribes["up"] = 1

\* what an Observer that does not throw and does not unsubscribe has been
\* given once these values and then complete were sent to it
Received(values) ==
    NextCalls(values) \o (IF consumer.complete THEN <<<<"complete", 0>>>> ELSE <<>>)

Drop(n, s) == IF n >= Len(s) THEN <<>> ELSE SubSeq(s, n + 1, Len(s))

\* subscribe on the chain has returned and nothing is running
Settled == Quiet /\ Subscribed /\ WellBehaved /\ ConsumerStays

\* C16: for every N >= 0 and finite sequence S, from(S).skip(N) delivers
\* exactly the elements of S from index N onward, in order, then exactly one
\* complete (no next at all when N >= |S|), and at no time anything else.
C16_SkipDropsFirstN ==
    (operator.op = "skip" /\ operator.count >= 0 /\ source.kind = "from" /\ WellBehaved) =>
        /\ IsPrefix(delivered, Received(Drop(operator.count, source.array)))
        /\ Settled => delivered = Received(Drop(operator.count, source.array))

C16_Witness ==
    /\ operator.op = "skip" /\ operator.count = 1
    /\ source.kind = "from" /\ Len(source.array) = 2
    /\ Settled
    /\ delivered = <<<<"next", source.array[2]>>, <<"complete", 0>>>>

\* fn never throws on a value of this array
NonThrowing(array) == \A i \in 1..Len(array) : ~FnThrows(array[i])

Mapped(array) == [i \in 1..Len(array) |-> Fn(array[i])]

\* C17: for a non-throwing fn and finite sequence S, from(S).map(fn)
\* delivers fn(s) for every element s of S, one next per element in S's
\* order, then exactly one complete, and at no time anything else.
C17_MapTransformsEach ==
    (/\ operator.op = "map" /\ source.kind = "from"
     /\ NonThrowing(source.array) /\ WellBehaved) =>
        /\ IsPrefix(delivered, Received(Mapped(source.array)))
        /\ Settled => delivered = Received(Mapped(source.array))

\* of(1, 2).map(x => x * 2) has yielded 2, 4, complete
C17_Witness ==
    /\ operator.op = "map"
    /\ source = Of(<<1, 2>>)
    /\ Settled
    /\ delivered = <<<<"next", 2>>, <<"next", 4>>, <<"complete", 0>>>>

Filtered(array) == SelectSeq(array, Predicate)

\* C18: for a non-throwing predicate p and finite sequence S,
\* from(S).filter(p) delivers exactly the elements of S for which p is true,
\* unchanged and in S's order, then exactly one complete, and at no time
\* anything else.
C18_FilterKeepsMatching ==
    (/\ operator.op = "filter" /\ source.kind = "from"
     /\ NonThrowing(source.array) /\ WellBehaved) =>
        /\ IsPrefix(delivered, Received(Filtered(source.array)))
        /\ Settled => delivered = Received(Filtered(source.array))

\* of(1, 2).filter(x => x % 2 === 0) has yielded 2, complete
C18_Witness ==
    /\ operator.op = "filter"
    /\ source = Of(<<1, 2>>)
    /\ Settled
    /\ delivered = <<<<"next", 2>>, <<"complete", 0>>>>

\* fn (or the predicate) threw while the downstream subscription was live
FnFault ==
    \E f \in chainFaults : f.site = "transform" /\ f.err = FnError /\ ~f.stopped

\* the catch clause is calling subscriber.error(e)
ErrorPending == Len(frames) > 0 /\ Current = Downstream("error", FnError)

\* what the Observer would have been given for the value fn throws on
Failing == IF operator.op = "map" THEN Fn(operator.throwsOn) ELSE operator.throwsOn

\* C19: when the function given to map or filter throws an error e while
\* processing a value, the downstream Observer receives exactly one error
\* call carrying e, no next for that value, and no next or complete
\* afterwards, whatever the upstream emits after it.
C19_TransformFaultDelivered ==
    (FnFault /\ consumer.error) =>
        /\ ErrorPending \/
            /\ delivered # <<>>
            /\ delivered[Len(delivered)] = <<"error", FnError>>
            /\ Cardinality(DeliveredErrors) = 1
        /\ DeliveredTerminals \subseteq {Len(delivered)}
        /\ ~Completed
        /\ \A i \in 1..Len(delivered) : delivered[i] # <<"next", Failing>>

\* fn threw on the first value of from(<<1, 2>>); the second value and
\* complete reached the relay afterwards, the Observer has the one error
C19_Witness ==
    /\ FnFault
    /\ operator.throwsOn = 1
    /\ source = From(<<1, 2>>)
    /\ relayed = <<1, 2>>
    /\ Quiet
    /\ delivered = <<<<"error", FnError>>>>

\* C20: when the function given to map or filter has thrown and the step is
\* over, the upstream subscription is torn down: it is stopped and the
\* upstream producer's cleanup action has run exactly once.
C20_TransformFaultTearsDown ==
    (FnFault /\ Quiet /\ HasCleanup) =>
        /\ subs["up"].isStopped
        /\ sourceCleanups = 1

\* what the code does: the teardown happens when the fault finds the
\* operator's cleanup action registered on the downstream subscription
\* (line 93), that is when the failing value was emitted after the
\* operator's procedure had returned
C20_TornDownWhenDeferred ==
    (/\ \E f \in chainFaults :
            f.site = "transform" /\ f.err = FnError /\ ~f.stopped /\ f.armed
     /\ Quiet /\ HasCleanup) =>
        /\ subs["up"].isStopped
        /\ sourceCleanups = 1

\* and the upstream is never unsubscribed when the failing value was
\* emitted inside subscribe
C20_NotTornDownWhenSynchronous ==
    (/\ \E f \in chainFaults :
            f.site = "transform" /\ f.err = FnError /\ ~f.stopped /\ ~f.armed
     /\ Quiet) =>
        unsubscribes["up"] = 0

\* the consumer's unsubscribe() calls made while the source's subscription
\* was live
Cancels == {f \in chainFaults : f.site = "unsubscribe" /\ f.live}

TornDown(f) ==
    /\ subs["down"].isStopped
    /\ subs["up"].isStopped
    /\ HasCleanup => sourceCleanups = 1
    /\ Len(delivered) = f.seen

\* C21: once unsubscribe() was called on the chain's Subscription while the
\* source was active and the call is over, every subscription of the chain
\* is stopped, the source's cleanup action has run exactly once, and the
\* Observer has had no callback since the call.
C21_UnsubscribeTearsDownChain ==
    Quiet => \A f \in Cancels : TornDown(f)

\* what the code does: the chain is torn down when the call finds the
\* chain's own subscription live; on a chain whose downstream has
\* terminated while its upstream stayed subscribed the call does nothing
C21_TornDownWhenLive ==
    Quiet => \A f \in Cancels : ~f.stopped => TornDown(f)

\* C24: subscribe always returns a Subscription, never an exception, also
\* when the producer completed, errored or threw inside the same call; and
\* unsubscribe() on a Subscription that is already terminal invokes no
\* Observer callback and raises no error.
C24_SubscribeReturnsSubscription ==
    [][/\ subscription' # "failed"
       /\ (Idle' /\ subscription' # "none") => subscription' = "returned"
       /\ (Calling({"unsubscribe"}) /\ isStopped /\ subscription = "returned")
            => /\ log' = log
               /\ exc' = NoExc
               /\ escaped' = escaped]_vars

\* from(S) completed inside subscribe; the Subscription was returned and
\* unsubscribe() has been called on it
C24_Witness ==
    /\ subscribeFn.kind = "from"
    /\ normalizedObserver.complete
    /\ subscription = "returned"
    /\ Idle
    /\ isStopped
    /\ unsubCalls >= 1
    /\ log # <<>> /\ log[Len(log)] = <<"complete", 0>>

Max(a, b) == IF a >= b THEN a ELSE b

\* the values from(S), from(S).take(N) and from(S).skip(N) deliver
ColdValues ==
    IF operator.op = "take" THEN First(operator.count, source.array)
    ELSE IF operator.op = "skip" THEN Drop(Max(operator.count, 0), source.array)
    ELSE source.array

\* C22: Observables are cold: every subscribe call on the same from(S),
\* take(N) or skip(N) Observable runs the procedure from the start, so once
\* the calls are over each of the Observers (none of which throws) has been
\* given the same full result; the counters of take and skip start at zero
\* in every call.
C22_EachSubscriberGetsAll ==
    (WellBehaved /\ Quiet /\ Subscribed) =>
        /\ delivered = Received(ColdValues)
        /\ \A i \in 1..Len(earlier) : earlier[i] = delivered

\* from(S).take(1) with |S| = 2 was subscribed to MaxSubscribes times
C22_Witness ==
    /\ operator.op = "take" /\ operator.count = 1
    /\ Len(source.array) = 2
    /\ consumer.complete
    /\ WellBehaved /\ Quiet
    /\ Len(earlier) = MaxSubscribes - 1
    /\ delivered = <<<<"next", source.array[1]>>, <<"complete", 0>>>>
    /\ earlier[1] = delivered

\* the producer's terminal signals of one kind that found the chain's own
\* subscription not yet stopped
Unheard(kind) ==
    {f \in chainFaults : f.site = "signal" /\ f.kind = kind /\ ~f.terminal}

\* C32: for map, filter, take and skip, an error(e) of the upstream
\* producer that finds the downstream not yet terminal gives the downstream
\* Observer exactly one error call, carrying e, and never a complete; a
\* complete of the upstream gives it exactly one complete.
C32_TerminalsForwarded ==
    (Quiet /\ operator.op \in {"map", "filter", "take", "skip"}) =>
        /\ \A f \in Unheard("error") : consumer.error =>
                /\ Cardinality(DeliveredTerminals) = 1
                /\ \A i \in DeliveredTerminals : delivered[i] = <<"error", f.err>>
        /\ \A f \in Unheard("complete") : consumer.complete =>
                /\ Cardinality(DeliveredTerminals) = 1
                /\ Completed

\* a deferred producer under skip sent a value that was passed on and then
\* signalled an error, which the Observer was given
C32_Witness ==
    /\ Quiet
    /\ operator.op = "skip"
    /\ Unheard("error") # {}
    /\ consumer.error
    /\ Len(delivered) = 2
    /\ delivered[1][1] = "next"
    /\ delivered[2] = <<"error", SignalError>>
    /\ subs["up"].state = "returned"

\* ------------------------------------------------- order of steps, C33
\* the Observer's error or complete callback is running (anywhere on the stack)
InHandler == \E i \in 1..Len(stack) : stack[i].fn \in {"obsError", "obsComplete"}

\* subscriber.error or subscriber.complete is at its call of the cleanup action
AtCleanup == {i \in 1..Len(stack) : stack[i].fn \in {"error", "complete"}
                                    /\ stack[i].pc = "cleanup"}

\* C33: in subscriber.error and subscriber.complete the flag is set before
\* the Observer's callback is invoked, the callback is invoked before the
\* cleanup action runs, and the reference is cleared when the cleanup action
\* has come back; so while the callback runs the subscription is stopped and
\* no cleanup action has run, whatever the callback calls
C33_TerminalOrder ==
    [][/\ InHandler => (isStopped /\ cleanupRuns = 0)
       /\ \A i \in AtCleanup :
            /\ isStopped
            /\ HasHandler(stack[i].fn) =>
                 (Terminals # {} /\ \A j \in Terminals : log[j][1] = stack[i].fn)
       /\ (Len(stack) > 0 /\ Top.fn \in {"error", "complete"} /\ Top.pc = "cleanup"
           /\ exc = NoExc) => ~unsubscribeFn']_vars

\* a deferred producer completed; the Observer's complete callback called
\* unsubscribe on its own subscription, which did nothing, and then the
\* cleanup action ran and its reference was cleared
C33_Witness ==
    /\ Idle
    /\ subscribeFn.kind = "custom"
    /\ log = <<<<"complete", 0>>>>
    /\ unsubCalls = 1
    /\ cleanupRuns = 1
    /\ isStopped
    /\ ~unsubscribeFn
    /\ escaped = {}

\* ------------------------------------- natural termination of a chain, C34
\* the terminal signals a deferred producer made while its subscription was
\* live and its cleanup action registered
NaturalEnds == {f \in chainFaults : f.site = "signal" /\ f.deferred
                                    /\ ~f.stopped /\ f.armed}

\* C34: in a chain whose deferred source completes or errors by itself, once
\* the signal has been dealt with the source's cleanup action has run exactly
\* once and an Observer that has the terminal callbacks has had exactly one
\* terminal callback
C34_NaturalEndTearsDownOnce ==
    /\ (NaturalEnds # {}) => sourceCleanups <= 1
    /\ (Quiet /\ NaturalEnds # {}) =>
         /\ sourceCleanups = 1
         /\ consumer.error => Cardinality(DeliveredTerminals) = 1

\* map over a deferred producer that emitted a value and then completed: the
\* Observer got the value and one complete, the source's cleanup ran once,
\* both subscriptions are stopped
C34_Witness ==
    /\ Quiet
    /\ operator.op = "map"
    /\ \E f \in NaturalEnds : f.kind = "complete" /\ ~f.terminal
    /\ consumer.complete
    /\ Len(delivered) = 2
    /\ delivered[1][1] = "next"
    /\ delivered[2] = <<"complete", 0>>
    /\ sourceCleanups = 1
    /\ subs["up"].isStopped /\ subs["down"].isStopped
    /\ ~subs["up"].unsubscribeFn

\* ------------------------------------------- a cleanup action that throws, C35
\* error, complete and unsubscribe let out only what the cleanup action threw
\* (lines 60-61 and 76-77 drop what the Observer's callback throws)
CleanupThrew == \E p \in escaped : p[1] \in TerminalFns

\* C35: once the cleanup action has thrown out of error, complete or
\* unsubscribe, the subscription is stopped and stays stopped, the cleanup
\* action is not invoked again and the Observer gets no further call
C35_StoppedAfterCleanupThrows ==
    [][CleanupThrew =>
         /\ isStopped /\ isStopped'
         /\ cleanupRuns = 1 /\ cleanupRuns' = cleanupRuns
         /\ log' = log]_vars

\* the cleanup action threw out of complete; the reference is still set; a
\* later next and a later unsubscribe did nothing
C35_Witness ==
    /\ Idle
    /\ <<"complete", Thrown("cleanup")>> \in escaped
    /\ isStopped
    /\ unsubscribeFn
    /\ cleanupRuns = 1
    /\ unsubCalls = 1
    /\ budget = 0
    /\ normalizedObserver.next /\ ~normalizedObserver.complete
    /\ log = <<>>

\* ============================================================================
\* StateMachine (src/16-state-machine/index.js): one machine built from a
\* config object, and the calls made on it one after the other. Guards and
\* actions are the config's functions; they are taken by what they return or
\* throw and do not call the machine themselves.
\* ============================================================================
MaxMachineCalls == 3
MaxContext == 1

besideMachine == <<single, chain, lru, pair, manager, emitter, retrying, pipeline>>

\* the state names a config may define, and a name every object inherits
\* from Object.prototype
StateNames == {"a", "b"}
Inherited == {"constructor"}
Targets == StateNames \cup Inherited
Events == {"go", "back"}

\* what a guard is: absent, a function returning true, false, 0 or
\* `context.n > 0`, a function that throws, or a string (truthy, no function)
Guards == {"none", "true", "false", "zero", "positive", "throws", "string"}
\* what an action is: absent, a function that returns, one that throws
ActionKinds == {"none", "returns", "throws"}

\* the values of `on[event]`: undefined, a target name, an object with
\* target, guard and action, or something else (a number)
Absent == [type |-> "undefined", target |-> "", guard |-> "none", action |-> "none"]
Named(target) == [type |-> "string", target |-> target, guard |-> "none", action |-> "none"]
Full(target, guard, action) ==
    [type |-> "object", target |-> target, guard |-> guard, action |-> action]
Other == [type |-> "number", target |-> "", guard |-> "none", action |-> "none"]

TransitionConfigs ==
    {Absent, Other} \cup {Named(s) : s \in Targets}
    \cup {Full(s, g, a) : s \in Targets, g \in Guards, a \in ActionKinds}

NoTransitions == [e \in Events |-> Absent]
\* config.states[name] when states has no such key of its own
NoState == [defined |-> FALSE, hasOn |-> FALSE, on |-> NoTransitions]
\* Object.prototype.constructor: truthy, and its `on` is undefined
InheritedMember == [defined |-> FALSE, hasOn |-> FALSE, on |-> NoTransitions]
State(hasOn, on) == [defined |-> TRUE, hasOn |-> hasOn, on |-> on]

\* the configs tried: state a with any transition for "go", state b absent,
\* without `on`, or going back to a
MachineConfigs ==
    {[shape |-> "null", initial |-> "", states |-> [s \in StateNames |-> NoState]],
     [shape |-> "noStates", initial |-> "a", states |-> [s \in StateNames |-> NoState]]}
    \cup {[shape |-> "full", initial |-> i,
           states |-> [s \in StateNames |-> IF s = "a" THEN a ELSE b]] :
            i \in {""} \cup Targets,
            a \in {State(FALSE, NoTransitions)}
                  \cup {State(TRUE, [NoTransitions EXCEPT !["go"] = c]) :
                          c \in TransitionConfigs},
            b \in {NoState, State(FALSE, NoTransitions),
                   State(TRUE, [NoTransitions EXCEPT !["back"] = Named("a")])}}

NoAnswer == [op |-> "none", event |-> "", result |-> "", list |-> {}, from |-> "",
             ctx |-> 0, ran |-> FALSE]

MachineInit ==
    /\ machineConfig \in MachineConfigs
    /\ currentState = ""
    /\ context = 0
    /\ built = "no"
    /\ answer = NoAnswer
    /\ actionRuns = <<>>
    /\ machineCalls = 0
    /\ NoSingle
    /\ NoChain
    /\ NoCache
    /\ NoPair
    /\ NoManager
    /\ NoEmitter
    /\ NoRetry
    /\ NoPipeline

\* name is a key of config.states
IsKey(name) == name \in StateNames /\ machineConfig.states[name].defined

\* lines 31, 84: `config.states[name]` is truthy (the lookup follows the
\* prototype chain)
Defined(name) == IsKey(name) \/ name \in Inherited

\* lines 55, 125, 149, 194: `this.config.states[this.currentState]`
StateConfig(name) ==
    IF IsKey(name) THEN machineConfig.states[name]
    ELSE IF name \in Inherited THEN InheritedMember
    ELSE NoState

\* lines 12-34
Construct ==
    /\ built = "no"
    /\ IF \/ machineConfig.shape = "null"
          \/ machineConfig.initial = ""
          \/ machineConfig.shape = "noStates"
       THEN /\ built' = "thrown"
            /\ UNCHANGED <<currentState, context>>
       ELSE /\ currentState' = machineConfig.initial
            /\ context' = 0
            /\ built' = IF Defined(machineConfig.initial) THEN "yes" ELSE "thrown"
    /\ UNCHANGED <<machineConfig, answer, actionRuns, machineCalls, besideMachine>>

\* what a guard function returns for a context
GuardResult(guard, ctx) ==
    CASE guard = "true" -> "true"
      [] guard = "false" -> "false"
      [] guard = "zero" -> "zero"
      [] guard = "positive" -> IF ctx > 0 THEN "true" ELSE "false"
      [] OTHER -> "thrown"

IsFunction(guard) == guard \notin {"none", "string"}

\* lines 51-112: what transition(event) returns or throws in state `from`
\* with context ctx, the state it leaves and whether it invoked the action
Outcome3(result, state, ran) == [result |-> result, state |-> state, ran |-> ran]

TransitionOutcome(from, ctx, event) ==
    LET c == StateConfig(from).on[event] IN
    IF ~StateConfig(from).hasOn \/ c.type = "undefined"
    THEN Outcome3("false", from, FALSE)
    ELSE IF c.type \notin {"string", "object"}
    THEN Outcome3("false", from, FALSE)
    ELSE IF ~Defined(c.target)
    THEN Outcome3("thrown", from, FALSE)
    ELSE IF IsFunction(c.guard) /\ GuardResult(c.guard, ctx) = "thrown"
    THEN Outcome3("thrown", from, FALSE)
    ELSE IF IsFunction(c.guard) /\ GuardResult(c.guard, ctx) = "false"
    THEN Outcome3("false", from, FALSE)
    ELSE IF c.action = "none"
    THEN Outcome3("true", c.target, FALSE)
    ELSE IF c.action = "throws"
    THEN Outcome3("thrown", c.target, TRUE)
    ELSE Outcome3("true", c.target, TRUE)

Called(op, event, result, list, ran) ==
    [op |-> op, event |-> event, result |-> result, list |-> list,
     from |-> currentState, ctx |-> context, ran |-> ran]

CanCallMachine == built = "yes" /\ machineCalls < MaxMachineCalls

\* transition(event), lines 51-112
Transition(event) ==
    /\ CanCallMachine
    /\ machineCalls' = machineCalls + 1
    /\ LET o == TransitionOutcome(currentState, context, event) IN
        /\ currentState' = o.state
        /\ actionRuns' = IF o.ran
                         THEN Append(actionRuns, [from |-> currentState, to |-> o.state,
                                                  event |-> event])
                         ELSE actionRuns
        /\ answer' = Called("transition", event, o.result, {}, o.ran)
    /\ UNCHANGED <<machineConfig, context, built, besideMachine>>

\* lines 119-139: what can(event) returns or throws
CanOutcome(from, ctx, event) ==
    LET c == StateConfig(from).on[event] IN
    IF ~StateConfig(from).hasOn \/ c.type = "undefined" THEN "false"
    ELSE IF c.type = "object" /\ c.guard # "none"
    THEN IF ~IsFunction(c.guard) THEN "thrown"
         ELSE IF GuardResult(c.guard, ctx) = "thrown" THEN "thrown"
         ELSE IF GuardResult(c.guard, ctx) # "false" THEN "true"
         ELSE "false"
    ELSE "true"

\* can(event), lines 119-139
Can(event) ==
    /\ CanCallMachine
    /\ machineCalls' = machineCalls + 1
    /\ answer' = Called("can", event, CanOutcome(currentState, context, event), {}, FALSE)
    /\ UNCHANGED <<machineConfig, currentState, context, built, actionRuns,
                   besideMachine>>

\* line 155: Object.keys(currentStateConfig.on)
KeysOfOn(from) == {e \in Events : StateConfig(from).on[e].type # "undefined"}

\* getAvailableTransitions(), lines 145-156: the filter throws when can does
GetAvailableTransitions ==
    /\ CanCallMachine
    /\ machineCalls' = machineCalls + 1
    /\ answer' =
         IF ~StateConfig(currentState).hasOn
         THEN Called("getAvailableTransitions", "", "returned", {}, FALSE)
         ELSE IF \E e \in KeysOfOn(currentState) :
                    CanOutcome(currentState, context, e) = "thrown"
         THEN Called("getAvailableTransitions", "", "thrown", {}, FALSE)
         ELSE Called("getAvailableTransitions", "", "returned",
                     {e \in KeysOfOn(currentState) :
                        CanOutcome(currentState, context, e) = "true"}, FALSE)
    /\ UNCHANGED <<machineConfig, currentState, context, built, actionRuns,
                   besideMachine>>

\* isFinal(), lines 191-197
IsFinal ==
    /\ CanCallMachine
    /\ machineCalls' = machineCalls + 1
    /\ answer' = Called("isFinal", "",
                        IF ~StateConfig(currentState).hasOn \/ KeysOfOn(currentState) = {}
                        THEN "true" ELSE "false", {}, FALSE)
    /\ UNCHANGED <<machineConfig, currentState, context, built, actionRuns,
                   besideMachine>>

\* updateContext(updater), lines 171-185, with a function or an object that
\* gives the context n, or with something else
UpdateContext(updater, n) ==
    /\ CanCallMachine
    /\ machineCalls' = machineCalls + 1
    /\ context' = IF updater \in {"function", "object"} THEN n ELSE context
    /\ answer' = Called("updateContext", "",
                        IF updater \in {"function", "object"} THEN "returned"
                        ELSE "thrown", {}, FALSE)
    /\ UNCHANGED <<machineConfig, currentState, built, actionRuns, besideMachine>>

\* reset(newContext), lines 203-213; config.context is the initial context
Reset(given, n) ==
    /\ CanCallMachine
    /\ machineCalls' = machineCalls + 1
    /\ currentState' = machineConfig.initial
    /\ context' = IF given THEN n ELSE 0
    /\ answer' = Called("reset", "", "returned", {}, FALSE)
    /\ UNCHANGED <<machineConfig, built, actionRuns, besideMachine>>

MachineStep ==
    \/ Construct
    \/ \E e \in Events : Transition(e)
    \/ \E e \in Events : Can(e)
    \/ GetAvailableTransitions
    \/ IsFinal
    \/ \E u \in {"function", "object", "number"}, n \in 0..MaxContext : UpdateContext(u, n)
    \/ \E given \in BOOLEAN, n \in 0..MaxContext : Reset(given, n)

SpecMachine == MachineInit /\ [][MachineStep]_vars

\* ------------------------------------------------- failed transitions, C36
FailedTransition == answer.op = "transition" /\ answer.result # "true"

\* C36: the current state is always a key of config.states, and after a
\* transition(event) that returned false or threw the current state is the
\* one the call was made in and the action was not invoked
C36_FailedTransitionChangesNothing ==
    built = "yes" =>
        /\ IsKey(currentState)
        /\ FailedTransition => (currentState = answer.from /\ ~answer.ran)

\* what holds: config.states[currentState] is always truthy, and a
\* transition(event) that returned false, or threw before it came to the
\* action, left the current state as it was
C36_FailureBeforeTheAction ==
    built = "yes" =>
        /\ Defined(currentState)
        /\ (FailedTransition /\ ~answer.ran) => currentState = answer.from
        /\ (answer.op = "transition" /\ answer.result = "false") => ~answer.ran

\* ------------------------------------------------- can and transition, C37
Succeeds(from, ctx, event) == TransitionOutcome(from, ctx, event).result = "true"

\* C37: can(event) returned true exactly if transition(event) succeeds in
\* the state and context of the call, getAvailableTransitions() returned
\* exactly the events whose transition succeeds, and where isFinal()
\* returned true no transition succeeds
C37_CanAgreesWithTransition ==
    built = "yes" =>
        /\ answer.op = "can" =>
             (answer.result = "true" <=> Succeeds(answer.from, answer.ctx, answer.event))
        /\ answer.op = "getAvailableTransitions" =>
             answer.list = {e \in Events : Succeeds(answer.from, answer.ctx, e)}
        /\ (answer.op = "isFinal" /\ answer.result = "true") =>
             \A e \in Events : ~Succeeds(answer.from, answer.ctx, e)

\* a transition whose target is defined, whose guard is a function or
\* absent and whose action does not throw
Sound(c) ==
    /\ c.type \in {"undefined", "string", "object"}
    /\ c.type # "undefined" => Defined(c.target)
    /\ c.guard # "string"
    /\ c.action # "throws"

\* what holds: can agrees with transition for an event whose transition is
\* sound, the list getAvailableTransitions returns agrees with it in a state
\* whose transitions are all sound, and a final state has no successful
\* transition whatever the config
C37_CanAgreesOnSoundTransitions ==
    built = "yes" =>
        /\ (answer.op = "can" /\ Sound(StateConfig(answer.from).on[answer.event])) =>
             (answer.result = "true" <=> Succeeds(answer.from, answer.ctx, answer.event))
        /\ (answer.op = "getAvailableTransitions" /\ answer.result = "returned"
            /\ \A e \in Events : Sound(StateConfig(answer.from).on[e])) =>
             answer.list = {e \in Events : Succeeds(answer.from, answer.ctx, e)}
        /\ (answer.op = "isFinal" /\ answer.result = "true") =>
             \A e \in Events : ~Succeeds(answer.from, answer.ctx, e)

\* ------------------------------------------------- the delays of retry, C38
\* the delay of attempt k by the book: initialDelay, initialDelay * k,
\* initialDelay * 2^(k-1)
Backoff(k) ==
    CASE options.backoff = "fixed" -> options.initialDelay
      [] options.backoff = "linear" -> options.initialDelay * k
      [] options.backoff = "exponential" -> options.initialDelay * 2^(k - 1)

Capped(k) == IF Backoff(k) <= options.maxDelay THEN Backoff(k) ELSE options.maxDelay

\* C38: no delay slept before a re-attempt exceeds options.maxDelay, with or
\* without jitter, and without jitter the delay after attempt k is the
\* strategy's initialDelay, initialDelay * k or initialDelay * 2^(k-1),
\* capped
C38_DelayWithinMaxDelay ==
    \A k \in 1..Len(waited) :
        /\ waited[k] <= options.maxDelay
        /\ ~options.jitter => waited[k] = Capped(k)

\* what holds: without jitter the delay after attempt k is the capped
\* backoff, so at most maxDelay; with jitter it is at least that and less
\* than 1.25 times that
C38_DelayWithinJitteredCap ==
    \A k \in 1..Len(waited) :
        IF options.jitter
        THEN Capped(k) <= waited[k] /\ 4 * waited[k] < 5 * Capped(k)
        ELSE waited[k] = Capped(k) /\ waited[k] <= options.maxDelay

\* ============================================================================
\* Middleware pipeline (src/14-middleware-pipeline/index.js): one run, either
\* of a Pipeline built with use() and started with run(context), or of the
\* function compose(middleware) returned. Middleware are user functions: they
\* call next() any number of times, while they run or from a later task,
\* and return or throw.
\* ============================================================================
MaxMiddleware == 2
MaxNextCalls == 3

besidePipeline == <<single, chain, lru, pair, manager, emitter, retrying, machine>>

\* lines 7-10: a new Pipeline has no middleware; compose is handed an array
\* of functions (anything else throws at lines 97-105 and composes nothing)
PipelineInit ==
    /\ composed \in BOOLEAN
    /\ middleware \in IF composed THEN 0..MaxMiddleware ELSE {0}
    /\ started = FALSE
    /\ currentIndex = 0 - 1
    /\ pipeStack = <<>>
    /\ entered = <<>>
    /\ rejections = <<>>
    /\ nextCalls = MaxNextCalls
    /\ NoSingle
    /\ NoChain
    /\ NoCache
    /\ NoPair
    /\ NoManager
    /\ NoEmitter
    /\ NoRetry
    /\ NoMachine

PipeFrame(fn, index) == [fn |-> fn, index |-> index]
Failure(index, error) == [index |-> index, error |-> error]

Innermost == pipeStack[Len(pipeStack)]
Within(fn) == Len(pipeStack) > 0 /\ Innermost.fn = fn

\* lines 17-30: use(fn)
Use(fn) ==
    /\ ~composed
    /\ ~started
    /\ middleware + Len(rejections) < MaxMiddleware
    /\ IF fn # "function"
       THEN /\ rejections' = Append(rejections, Failure(middleware, "must be a function"))
            /\ middleware' = middleware
       ELSE /\ middleware' = middleware + 1
            /\ rejections' = rejections
    /\ UNCHANGED <<composed, started, currentIndex, pipeStack, entered, nextCalls,
                   besidePipeline>>

\* lines 37, 69 and 112-113, 135: the run starts with dispatch(0)
Run ==
    /\ ~started
    /\ started' = TRUE
    /\ pipeStack' = <<PipeFrame("dispatch", 0)>>
    /\ UNCHANGED <<composed, middleware, currentIndex, entered, rejections, nextCalls,
                   besidePipeline>>

\* dispatch calls the middleware (lines 56, 128)
Enter(index) ==
    /\ entered' = Append(entered, index)
    /\ pipeStack' = Append(pipeStack, PipeFrame("middleware", index))

\* dispatch returns a promise
Settle == pipeStack' = SubSeq(pipeStack, 1, Len(pipeStack) - 1)

\* lines 46-63: dispatch of Pipeline.run
RunDispatch ==
    /\ ~composed
    /\ Within("dispatch")
    /\ IF Innermost.index >= middleware
       THEN Settle /\ entered' = entered
       ELSE Enter(Innermost.index)
    /\ UNCHANGED <<composed, middleware, started, currentIndex, rejections, nextCalls,
                   besidePipeline>>

\* compose's dispatch without the test of line 116
ComposedDispatchUnguarded ==
    /\ composed
    /\ Within("dispatch")
    /\ currentIndex' = Innermost.index
    /\ rejections' = rejections
    /\ IF Innermost.index >= middleware
       THEN Settle /\ entered' = entered
       ELSE Enter(Innermost.index)
    /\ UNCHANGED <<composed, middleware, started, nextCalls, besidePipeline>>

\* lines 115-133: dispatch of the function compose returned
ComposedDispatch ==
    /\ composed
    /\ Within("dispatch")
    /\ IF Innermost.index <= currentIndex
       THEN /\ rejections' = Append(rejections, Failure(Innermost.index, "stackoverflow"))
            /\ Settle
            /\ UNCHANGED <<currentIndex, entered>>
       ELSE /\ currentIndex' = Innermost.index
            /\ rejections' = rejections
            /\ IF Innermost.index >= middleware
               THEN Settle /\ entered' = entered
               ELSE Enter(Innermost.index)
    /\ UNCHANGED <<composed, middleware, started, nextCalls, besidePipeline>>

\* a middleware calls next(): lines 54 and 128, dispatch(index + 1)
CallNext ==
    /\ Within("middleware")
    /\ nextCalls > 0
    /\ nextCalls' = nextCalls - 1
    /\ pipeStack' = Append(pipeStack, PipeFrame("dispatch", Innermost.index + 1))
    /\ UNCHANGED <<composed, middleware, started, currentIndex, entered, rejections,
                   besidePipeline>>

\* a middleware returns and its dispatch resolves (lines 58, 128)
MiddlewareReturn ==
    /\ Within("middleware")
    /\ pipeStack' = SubSeq(pipeStack, 1, Len(pipeStack) - 2)
    /\ UNCHANGED <<composed, middleware, started, currentIndex, entered, rejections,
                   nextCalls, besidePipeline>>

\* a middleware throws and its dispatch rejects (lines 60-62, 130-132)
MiddlewareThrow ==
    /\ Within("middleware")
    /\ rejections' = Append(rejections, Failure(Innermost.index, "thrown"))
    /\ pipeStack' = SubSeq(pipeStack, 1, Len(pipeStack) - 2)
    /\ UNCHANGED <<composed, middleware, started, currentIndex, entered, nextCalls,
                   besidePipeline>>

\* a later task: a middleware that was invoked calls its next() after an
\* await or from a timer
NextLater ==
    /\ pipeStack = <<>>
    /\ nextCalls > 0
    /\ \E k \in 1..Len(entered) :
         pipeStack' = <<PipeFrame("dispatch", entered[k] + 1)>>
    /\ nextCalls' = nextCalls - 1
    /\ UNCHANGED <<composed, middleware, started, currentIndex, entered, rejections,
                   besidePipeline>>

PipelineStep ==
    \/ \E fn \in {"function", "other"} : Use(fn)
    \/ Run
    \/ RunDispatch
    \/ ComposedDispatch
    \/ CallNext
    \/ MiddlewareReturn
    \/ MiddlewareThrow
    \/ NextLater

SpecPipeline == PipelineInit /\ [][PipelineStep]_vars

\* ------------------------------------------------- one entry each, C39
\* C39: in one run the middleware are invoked in registration order and
\* none is invoked twice, whatever number of times a middleware calls next(),
\* under Pipeline.run and under compose alike
C39_EnteredOnceInOrder == \A k \in 1..Len(entered) : entered[k] = k - 1

\* what holds: under compose the k-th middleware invoked is the k-th
\* registered, and every next() after the first of a middleware is answered
\* with a rejected promise
C39_ComposedEnteredOnceInOrder ==
    composed => \A k \in 1..Len(entered) : entered[k] = k - 1

\* under compose a middleware called next() twice: the second call was
\* rejected and the middleware after it ran once
C39_ComposedWitness ==
    /\ composed
    /\ middleware = 2
    /\ entered = <<0, 1>>
    /\ pipeStack = <<>>
    /\ \E r \in 1..Len(rejections) : rejections[r] = Failure(1, "stackoverflow")

====
